---- MODULE Spec2Model ----
(***************************************************************************)
(* esp-voice-server: the Session Store (SessionManager), the protocol      *)
(* engine (VoiceWebSocketServer.handleMessage) and their composition in    *)
(* VoiceServer, as state machines.                                         *)
(*                                                                         *)
(* An optional value (T | null | undefined) is a sequence of length <= 1:  *)
(* <<>> is null / undefined, <<v>> is the value v.                         *)
(***************************************************************************)
EXTENDS Integers, Sequences, FiniteSets, TLC

VARIABLES
    sessions,       \* SessionManager.sessions : id -> StreamingSession
    lastActivity,   \* SessionManager.lastActivity : id -> time
    now,            \* Date.now()
    last,           \* the last Session Store call: its arguments, result, notifications
    pendingEnd,     \* endSession calls suspended at `await onEnd(session)`
    wsHeader,       \* SessionInfo.header of the connection (null: AWAITING_HEADER)
    inflight,       \* handleMessage invocations suspended at `await onMessage(...)`
    events,         \* the MessageType values handed to onMessage, in order
    sent,           \* the JSON messages sent to the client, in order
    nframes,        \* number of frames the connection has delivered
    lastFrame,      \* the frame delivered last
    overlapped,     \* a frame was classified while an earlier one was in progress
    conn,           \* the connection: "none", "open", "terminated", "closed"
    registered,     \* the connection is in VoiceWebSocketServer.sessions
    isAlive,        \* SessionInfo.isAlive
    wsToSessionId,  \* VoiceServer.wsToSessionId of the connection
    transcribed,    \* the calls of pipeline.transcription.transcribe, in order
    closePc,        \* the close handler: "none", "pending" (awaiting onClose), "done"
    wss,            \* VoiceWebSocketServer.wss is set (the server is listening)
    heartbeatTimer, \* VoiceWebSocketServer.heartbeatTimer is set
    timers,         \* number of interval timers that are set and not cleared
    wsSessions,     \* VoiceWebSocketServer.sessions : socket -> SessionInfo.isAlive
    sockets,        \* each socket: "none", "open", "terminated", "closed"
    hubLast,        \* the last event of the connection registry and what it did
    stopping,       \* number of stop() calls suspended at `await ... wss.close(...)`
    calc,           \* the last call of a codec function: its arguments and result
    clearing        \* SessionManager.clearAll: the key order of `sessions`, the call's position

storeVars == <<sessions, lastActivity, now, last, pendingEnd>>
engineVars == <<wsHeader, inflight, events, sent, nframes, lastFrame, overlapped>>
serverVars == <<conn, registered, isAlive, wsToSessionId, transcribed, closePc>>
hubVars == <<wss, heartbeatTimer, timers, wsSessions, sockets, hubLast, stopping>>
calcVars == <<calc>>
clearVars == <<clearing>>
vars == <<storeVars, engineVars, serverVars, hubVars, calcVars, clearVars>>

----------------------------------------------------------------------------
(* Bounds of the model.  The quotas are the SessionConfig of the instance  *)
(* under check (any value may be configured; small ones are checked).      *)

MaxBytes == 3
MaxDurationMs == 1
MaxChunks == 2

IdleTimeoutMs == 1

MaxFrames == 4
MaxInflight == 2
MaxSamples == 2
MaxResampleLen == 11
MaxStops == 2

\* The clock runs far enough for a session to outlive MaxDurationMs.
MaxTime == MaxDurationMs + 1

SessionIds == {"s1"}

\* The sockets that connect to the WebSocket server.
Conns == {"a", "b"}

\* The chunks offered to addChunk: buffers of different lengths and contents.
Chunk(n) == [i \in 1..n |-> 10 * n + i]
Chunks == {Chunk(1), Chunk(2)}

None == <<>>
Some(v) == <<v>>

\* PcmHeader values handed to the store.
Hdr(rate, ch, bits, samps) ==
    [magic |-> "PCM1", sample_rate |-> rate, channels |-> ch, bits |-> bits,
     frame_samps |-> samps, reserved |-> 0]
Headers == {Hdr(16000, 1, 16, 320), Hdr(8000, 2, 8, 160)}

----------------------------------------------------------------------------
(* Map helpers (JavaScript Map.set / Map.delete).                          *)

MapSet(m, k, v) == [x \in (DOMAIN m) \cup {k} |-> IF x = k THEN v ELSE m[x]]
MapDelete(m, k) == [x \in (DOMAIN m) \ {k} |-> m[x]]
EmptyMap == [x \in {} |-> 0]

RECURSIVE SumLen(_)
SumLen(chunks) ==
    IF chunks = <<>> THEN 0 ELSE Len(Head(chunks)) + SumLen(Tail(chunks))

RECURSIVE Concat(_)
Concat(chunks) ==
    IF chunks = <<>> THEN <<>> ELSE Head(chunks) \o Concat(Tail(chunks))

----------------------------------------------------------------------------
(* SessionManager: each operation maps (sessions, lastActivity) and its    *)
(* arguments to the new maps (ss, la), the returned value (ret) and the    *)
(* callbacks it invoked, in order (notes).                                 *)

NewSession(sessionId, header, t) ==
    [sessionId |-> sessionId, dataChunks |-> <<>>, startTime |-> t,
     totalBytes |-> 0, header |-> header, ext |-> EmptyMap]

createSession(ss, la, sessionId, header, t) ==
    LET session == NewSession(sessionId, header, t)
    IN  [ss |-> MapSet(ss, sessionId, session),
         la |-> MapSet(la, sessionId, t),
         ret |-> session,
         notes |-> <<[cb |-> "onCreate", session |-> session]>>]

setHeader(ss, la, sessionId, header, t) ==
    IF sessionId \notin DOMAIN ss
    THEN [ss |-> ss, la |-> la, ret |-> FALSE, notes |-> <<>>]
    ELSE [ss |-> [ss EXCEPT ![sessionId].header = Some(header)],
          la |-> MapSet(la, sessionId, t),
          ret |-> TRUE, notes |-> <<>>]

\* Mutants of LimitExceeded: the byte quota tested with >=, the chunk quota
\* tested with >, the duration quota tested first.
LimitExceeded_BytesGeq(session, chunk, t) ==
    IF session.totalBytes + Len(chunk) >= MaxBytes THEN "max_bytes"
    ELSE IF t - session.startTime > MaxDurationMs THEN "max_duration"
    ELSE IF Len(session.dataChunks) >= MaxChunks THEN "max_chunks"
    ELSE "none"

LimitExceeded_ChunksGt(session, chunk, t) ==
    IF session.totalBytes + Len(chunk) > MaxBytes THEN "max_bytes"
    ELSE IF t - session.startTime > MaxDurationMs THEN "max_duration"
    ELSE IF Len(session.dataChunks) > MaxChunks THEN "max_chunks"
    ELSE "none"

LimitExceeded_DurationFirst(session, chunk, t) ==
    IF t - session.startTime > MaxDurationMs THEN "max_duration"
    ELSE IF session.totalBytes + Len(chunk) > MaxBytes THEN "max_bytes"
    ELSE IF Len(session.dataChunks) >= MaxChunks THEN "max_chunks"
    ELSE "none"

\* The quota addChunk finds violated, in the order it tests them; "none" if none.
LimitExceeded(session, chunk, t) ==
    IF session.totalBytes + Len(chunk) > MaxBytes THEN "max_bytes"
    ELSE IF t - session.startTime > MaxDurationMs THEN "max_duration"
    ELSE IF Len(session.dataChunks) >= MaxChunks THEN "max_chunks"
    ELSE "none"

\* Mutant of addChunk: a rejected chunk still refreshes the activity time.
addChunk_TouchOnReject(ss, la, sessionId, chunk, t) ==
    IF sessionId \notin DOMAIN ss
    THEN [ss |-> ss, la |-> la, ret |-> FALSE, notes |-> <<>>]
    ELSE LET session == ss[sessionId]
             reason == LimitExceeded(session, chunk, t)
         IN  IF reason # "none"
             THEN [ss |-> ss, la |-> MapSet(la, sessionId, t), ret |-> FALSE,
                   notes |-> <<[cb |-> "onLimitExceeded", session |-> session,
                                reason |-> reason]>>]
             ELSE [ss |-> [ss EXCEPT
                             ![sessionId].dataChunks = Append(@, chunk),
                             ![sessionId].totalBytes = @ + Len(chunk)],
                   la |-> MapSet(la, sessionId, t),
                   ret |-> TRUE, notes |-> <<>>]

\* Mutant of addChunk: a chunk for an id that is not in the store starts a session.
addChunk_Upsert(ss, la, sessionId, chunk, t) ==
    IF sessionId \notin DOMAIN ss
    THEN [ss |-> MapSet(ss, sessionId,
                        [NewSession(sessionId, None, t) EXCEPT
                            !.dataChunks = <<chunk>>, !.totalBytes = Len(chunk)]),
          la |-> MapSet(la, sessionId, t), ret |-> TRUE, notes |-> <<>>]
    ELSE LET session == ss[sessionId]
             reason == LimitExceeded(session, chunk, t)
         IN  IF reason # "none"
             THEN [ss |-> ss, la |-> la, ret |-> FALSE,
                   notes |-> <<[cb |-> "onLimitExceeded", session |-> session,
                                reason |-> reason]>>]
             ELSE [ss |-> [ss EXCEPT
                             ![sessionId].dataChunks = Append(@, chunk),
                             ![sessionId].totalBytes = @ + Len(chunk)],
                   la |-> MapSet(la, sessionId, t),
                   ret |-> TRUE, notes |-> <<>>]

addChunk(ss, la, sessionId, chunk, t) ==
    IF sessionId \notin DOMAIN ss
    THEN [ss |-> ss, la |-> la, ret |-> FALSE, notes |-> <<>>]
    ELSE LET session == ss[sessionId]
             reason == LimitExceeded(session, chunk, t)
         IN  IF reason # "none"
             THEN [ss |-> ss, la |-> la, ret |-> FALSE,
                   notes |-> <<[cb |-> "onLimitExceeded", session |-> session,
                                reason |-> reason]>>]
             ELSE [ss |-> [ss EXCEPT
                             ![sessionId].dataChunks = Append(@, chunk),
                             ![sessionId].totalBytes = @ + Len(chunk)],
                   la |-> MapSet(la, sessionId, t),
                   ret |-> TRUE, notes |-> <<>>]

\* Mutant of getAudioData: the chunks are joined last first.
getAudioData_Reversed(ss, sessionId) ==
    IF sessionId \notin DOMAIN ss \/ Len(ss[sessionId].dataChunks) = 0
    THEN None
    ELSE Some(Concat([i \in 1..Len(ss[sessionId].dataChunks) |->
                        ss[sessionId].dataChunks[Len(ss[sessionId].dataChunks) + 1 - i]]))

getAudioData(ss, sessionId) ==
    IF sessionId \notin DOMAIN ss \/ Len(ss[sessionId].dataChunks) = 0
    THEN None
    ELSE Some(Concat(ss[sessionId].dataChunks))

\* dataSize / ((bitsPerSample / 8) * channels) / sampleRate, as the fraction
\* <<numerator, denominator>>.
calculateDuration(dataSize, sampleRate, channels, bitsPerSample) ==
    <<dataSize * 8, bitsPerSample * channels * sampleRate>>

getStats(ss, sessionId, t) ==
    IF sessionId \notin DOMAIN ss THEN None
    ELSE LET session == ss[sessionId]
         IN  Some([duration |-> t - session.startTime,
                   totalBytes |-> session.totalBytes,
                   chunkCount |-> Len(session.dataChunks),
                   audioDuration |->
                       IF session.header # None /\ session.totalBytes > 0
                       THEN calculateDuration(session.totalBytes,
                                              session.header[1].sample_rate,
                                              session.header[1].channels,
                                              session.header[1].bits)
                       ELSE <<0, 1>>])

\* (session as any)[key] = value: a key that names a field of StreamingSession
\* overwrites that field, any other key is a property of its own.
SessionFields == {"sessionId", "dataChunks", "startTime", "totalBytes", "header"}

\* Mutant of setSessionData: an unknown id gets a session that holds the value.
setSessionData_Upsert(ss, sessionId, key, value) ==
    IF sessionId \notin DOMAIN ss
    THEN [ss |-> MapSet(ss, sessionId,
                        [NewSession(sessionId, None, 0) EXCEPT !.ext = MapSet(@, key, value)]),
          ret |-> TRUE]
    ELSE IF key \in SessionFields
    THEN [ss |-> [ss EXCEPT ![sessionId][key] = value], ret |-> TRUE]
    ELSE [ss |-> [ss EXCEPT ![sessionId].ext = MapSet(@, key, value)], ret |-> TRUE]

setSessionData(ss, sessionId, key, value) ==
    IF sessionId \notin DOMAIN ss THEN [ss |-> ss, ret |-> FALSE]
    ELSE IF key \in SessionFields
    THEN [ss |-> [ss EXCEPT ![sessionId][key] = value], ret |-> TRUE]
    ELSE [ss |-> [ss EXCEPT ![sessionId].ext = MapSet(@, key, value)], ret |-> TRUE]

getSessionData(ss, sessionId, key) ==
    IF sessionId \notin DOMAIN ss THEN None
    ELSE IF key \in SessionFields THEN Some(ss[sessionId][key])
    ELSE IF key \in DOMAIN ss[sessionId].ext THEN Some(ss[sessionId].ext[key])
    ELSE None

\* Mutant of endSession: the session is notified and returned but stays in the map.
endSession_NoDelete(ss, la, sessionId) ==
    IF sessionId \notin DOMAIN ss
    THEN [ss |-> ss, la |-> la, ret |-> None, notes |-> <<>>]
    ELSE [ss |-> ss,
          la |-> MapDelete(la, sessionId),
          ret |-> Some(ss[sessionId]),
          notes |-> <<[cb |-> "onEnd", session |-> ss[sessionId]]>>]

\* endSession up to its `await`: the lookup, the two deletes and the call of
\* onEnd.  `ret` is what the call returns once the await is over.
endSession(ss, la, sessionId) ==
    IF sessionId \notin DOMAIN ss
    THEN [ss |-> ss, la |-> la, ret |-> None, notes |-> <<>>]
    ELSE [ss |-> MapDelete(ss, sessionId),
          la |-> MapDelete(la, sessionId),
          ret |-> Some(ss[sessionId]),
          notes |-> <<[cb |-> "onEnd", session |-> ss[sessionId]]>>]

----------------------------------------------------------------------------
(* The Session Store driven by an arbitrary caller.                        *)

Opt(m, k) == IF k \in DOMAIN m THEN Some(m[k]) ELSE None

\* The record of a call: its arguments, what it returned, the callbacks it invoked.
\* A returned boolean is `ret`, a returned session (or absence of one) `session`.
Call(op, id, arg, r) ==
    CASE op = "createSession" ->
           [op |-> op, id |-> id, header |-> arg, session |-> Some(r.ret), notes |-> r.notes]
      [] op = "setHeader" ->
           [op |-> op, id |-> id, header |-> arg, ret |-> r.ret, notes |-> r.notes]
      [] op = "addChunk" ->
           [op |-> op, id |-> id, arg |-> arg, ret |-> r.ret, notes |-> r.notes]
      [] op = "endSession" ->
           [op |-> op, id |-> id, session |-> r.ret, notes |-> r.notes]

Init ==
    /\ sessions = EmptyMap
    /\ lastActivity = EmptyMap
    /\ now = 0
    /\ last = [op |-> "init", id |-> "", notes |-> <<>>]
    /\ pendingEnd = {}
    /\ wsHeader = None
    /\ inflight = {}
    /\ events = <<>>
    /\ sent = <<>>
    /\ nframes = 0
    /\ lastFrame = [isBuffer |-> TRUE, textual |-> FALSE, bytes |-> <<>>]
    /\ overlapped = FALSE
    /\ conn = "none"
    /\ registered = FALSE
    /\ isAlive = FALSE
    /\ wsToSessionId = <<>>
    /\ transcribed = <<>>
    /\ closePc = "none"
    /\ wss = FALSE
    /\ heartbeatTimer = FALSE
    /\ timers = 0
    /\ wsSessions = EmptyMap
    /\ sockets = [c \in Conns |-> "none"]
    /\ hubLast = [op |-> "init", pinged |-> {}, ponged |-> {}, terminated |-> {}]
    /\ stopping = 0
    /\ calc = [fn |-> "init"]
    /\ clearing = [order |-> <<>>, pc |-> "none", ids |-> <<>>, called |-> FALSE]

Tick ==
    /\ now < MaxTime
    /\ now' = now + 1
    /\ UNCHANGED <<sessions, lastActivity, last, pendingEnd>>

\* What a caller's onCreate does when createSession calls it: it returns (a
\* value, or a promise that is fulfilled or rejected later), or it throws.
OnCreateOutcomes == {"settles", "throws"}

\* createSession with any onCreate: a throw of the callback leaves
\* Promise.resolve(...) unevaluated and propagates out of createSession, after
\* the session was put in both maps.
CreateSession ==
    \E id \in SessionIds, h \in {None} \cup {Some(x) : x \in Headers},
       outcome \in OnCreateOutcomes :
        LET r == createSession(sessions, lastActivity, id, h, now)
        IN  /\ sessions' = r.ss
            /\ lastActivity' = r.la
            /\ last' = IF outcome = "throws"
                       THEN [op |-> "createSession.throw", id |-> id, header |-> h,
                             notes |-> r.notes]
                       ELSE Call("createSession", id, h, r)
            /\ UNCHANGED <<now, pendingEnd>>

SetHeader ==
    \E id \in SessionIds, h \in Headers :
        LET r == setHeader(sessions, lastActivity, id, h, now)
        IN  /\ sessions' = r.ss
            /\ lastActivity' = r.la
            /\ last' = Call("setHeader", id, Some(h), r)
            /\ UNCHANGED <<now, pendingEnd>>

AddChunk ==
    \E id \in SessionIds, chunk \in Chunks :
        LET r == addChunk(sessions, lastActivity, id, chunk, now)
        IN  /\ sessions' = r.ss
            /\ lastActivity' = r.la
            /\ last' = Call("addChunk", id, Some(chunk), r)
            /\ UNCHANGED <<now, pendingEnd>>

\* endSession is called: it runs to its await (or, for an unknown id, to its return).
\* A re-created session is ended again only once the pending endSession of its id
\* has settled, which keeps one suspended call per id.
EndSession ==
    \E id \in SessionIds :
        LET r == endSession(sessions, lastActivity, id)
        IN  /\ id \notin DOMAIN sessions \/ \A p \in pendingEnd : p.sessionId # id
            /\ sessions' = r.ss
            /\ lastActivity' = r.la
            /\ last' = Call("endSession", id, None, r)
            /\ pendingEnd' = IF id \in DOMAIN sessions
                             THEN pendingEnd \cup {r.ret[1]}
                             ELSE pendingEnd
            /\ UNCHANGED now

\* The awaited onEnd promise settles: fulfilled, endSession returns the session;
\* rejected, the rejection propagates to the caller of endSession.
EndSessionSettle ==
    \E session \in pendingEnd, fulfilled \in BOOLEAN :
        /\ pendingEnd' = pendingEnd \ {session}
        /\ last' = [op |-> IF fulfilled THEN "endSession.return" ELSE "endSession.throw",
                    id |-> session.sessionId,
                    session |-> IF fulfilled THEN Some(session) ELSE None,
                    notes |-> <<>>]
        /\ UNCHANGED <<sessions, lastActivity, now>>

\* The store on its own: no connection exists.
StoreNext ==
    \/ Tick /\ UNCHANGED <<engineVars, serverVars, hubVars, calcVars, clearVars>>
    \/ CreateSession /\ UNCHANGED <<engineVars, serverVars, hubVars, calcVars, clearVars>>
    \/ SetHeader /\ UNCHANGED <<engineVars, serverVars, hubVars, calcVars, clearVars>>
    \/ AddChunk /\ UNCHANGED <<engineVars, serverVars, hubVars, calcVars, clearVars>>
    \/ EndSession /\ UNCHANGED <<engineVars, serverVars, hubVars, calcVars, clearVars>>
    \/ EndSessionSettle /\ UNCHANGED <<engineVars, serverVars, hubVars, calcVars, clearVars>>

----------------------------------------------------------------------------
(* VoiceWebSocketServer.handleMessage: the protocol engine of a connection. *)
(* A frame is [isBuffer, textual, bytes]: the `data` of a ws 'message'      *)
(* event, a Buffer or not, whether the peer sent it as a text frame, and    *)
(* its bytes (the character codes of a string).  The ws library hands a     *)
(* text frame to the listener as a string up to version 7 and as a Buffer   *)
(* of its UTF-8 bytes from version 8 on; the import of `ws` names neither.  *)

Magic == <<80, 67, 77, 49>>         \* "PCM1"
EndMarker == <<69, 78, 68, 0>>      \* "END\0"

Binary(bytes) == [isBuffer |-> TRUE, textual |-> FALSE, bytes |-> bytes]
Text(chars) == [isBuffer |-> FALSE, textual |-> TRUE, bytes |-> chars]
TextBuffer(chars) == [isBuffer |-> TRUE, textual |-> TRUE, bytes |-> chars]

\* createPcmHeader(16000, 1, 16, 320)
HeaderBytes == Magic \o <<128, 62, 0, 0, 1, 16, 64, 1, 0, 0, 0, 0>>

Frames ==
    { Binary(HeaderBytes),              \* a 16-byte header
      Binary(HeaderBytes \o <<7, 8>>),  \* a header followed by two more bytes
      Binary(EndMarker),
      Binary(<<1, 2>>),                 \* audio
      Binary(Magic),                    \* 4 bytes, not END, too short for a header
      Text(<<65, 85, 84, 72, 58, 117>>),        \* "AUTH:u", as a string
      TextBuffer(<<65, 85, 84, 72, 58, 117>>)   \* "AUTH:u", as a Buffer
    }

\* DataView.getUint16 / getUint32 at a 0-based offset, little endian.
GetUint8(b, off) == b[off + 1]
GetUint16LE(b, off) == b[off + 1] + 256 * b[off + 2]
GetUint32LE(b, off) ==
    b[off + 1] + 256 * b[off + 2] + 65536 * b[off + 3] + 16777216 * b[off + 4]

\* The header handleMessage builds from a frame it accepts as a header.
HeaderOf(b) ==
    [magic |-> "PCM1", sample_rate |-> GetUint32LE(b, 4), channels |-> GetUint8(b, 8),
     bits |-> GetUint8(b, 9), frame_samps |-> GetUint16LE(b, 10),
     reserved |-> GetUint16LE(b, 12)]

\* Mutant of Classify: a binary frame that is neither a header nor END is audio
\* whether or not a header was received.
Classify_AudioAnyTime(header, data) ==
    IF ~data.isBuffer THEN [type |-> "text", message |-> data.bytes]
    ELSE IF header = None /\ Len(data.bytes) >= 16 /\ SubSeq(data.bytes, 1, 4) = Magic
    THEN [type |-> "header", data |-> data.bytes, header |-> HeaderOf(data.bytes)]
    ELSE IF Len(data.bytes) = 4 /\ data.bytes = EndMarker THEN [type |-> "end"]
    ELSE [type |-> "audio", data |-> data.bytes]

\* The MessageType handleMessage hands to onMessage for `data`, given
\* session.header; "drop" when it only logs a warning.
Classify(header, data) ==
    IF ~data.isBuffer THEN [type |-> "text", message |-> data.bytes]
    ELSE IF header = None /\ Len(data.bytes) >= 16 /\ SubSeq(data.bytes, 1, 4) = Magic
    THEN [type |-> "header", data |-> data.bytes, header |-> HeaderOf(data.bytes)]
    ELSE IF Len(data.bytes) = 4 /\ data.bytes = EndMarker THEN [type |-> "end"]
    ELSE IF header # None THEN [type |-> "audio", data |-> data.bytes]
    ELSE [type |-> "drop"]

ErrorJson == [type |-> "error", message |-> "Failed to process message"]

\* The id handleConnection gives the connection.
ConnId == "c1"

ConnectedJson == [type |-> "connection_established", sessionId |-> ConnId]

\* A 'connection' event: handleConnection up to (not including) its call of
\* handlers.onConnection.
Accept ==
    /\ conn = "none"
    /\ conn' = "open"
    /\ registered' = TRUE
    /\ isAlive' = TRUE
    /\ sent' = Append(sent, ConnectedJson)

\* handleConnection with a connection handler that is any function.
EngineConnect ==
    /\ Accept
    /\ UNCHANGED <<wsHeader, inflight, events, nframes, lastFrame, overlapped>>
    /\ UNCHANGED <<wsToSessionId, transcribed, closePc>>
    /\ UNCHANGED storeVars

\* What every delivery of a frame does before the handler is called.
Deliver(data, ev) ==
    /\ conn = "open"
    /\ nframes < MaxFrames
    /\ nframes' = nframes + 1
    /\ lastFrame' = data
    /\ overlapped' = (overlapped \/ inflight # {})
    /\ wsHeader' = IF ev.type = "header" THEN Some(ev.header) ELSE wsHeader

\* A 'message' event with a handler that is any function: handleMessage runs to
\* its first await.  The handler throws at once (the catch block answers with an
\* error message) or returns, and handleMessage is suspended on what it returned.
EngineMessage ==
    \E data \in Frames, throws \in BOOLEAN :
        LET ev == Classify(wsHeader, data)
        IN  /\ Deliver(data, ev)
            /\ IF ev.type = "drop"
               THEN UNCHANGED <<inflight, events, sent>>
               ELSE /\ events' = Append(events, ev)
                    /\ IF throws
                       THEN /\ sent' = Append(sent, ErrorJson)
                            /\ UNCHANGED inflight
                       ELSE /\ Cardinality(inflight) < MaxInflight
                            /\ inflight' = inflight \cup {[n |-> nframes + 1, type |-> ev.type]}
                            /\ UNCHANGED sent
            /\ UNCHANGED <<storeVars, serverVars>>

\* The awaited handler promise settles and handleMessage runs to its end: after
\* an end event it resets session.header; on a rejection the catch block runs.
EngineSettle ==
    \E m \in inflight, fulfilled \in BOOLEAN :
        /\ inflight' = inflight \ {m}
        /\ wsHeader' = IF fulfilled /\ m.type = "end" THEN None ELSE wsHeader
        /\ sent' = IF fulfilled THEN sent ELSE Append(sent, ErrorJson)
        /\ UNCHANGED <<events, nframes, lastFrame, overlapped>>
        /\ UNCHANGED <<storeVars, serverVars>>

EngineNext ==
    \/ EngineConnect /\ UNCHANGED <<hubVars, calcVars, clearVars>>
    \/ EngineMessage /\ UNCHANGED <<hubVars, calcVars, clearVars>>
    \/ EngineSettle /\ UNCHANGED <<hubVars, calcVars, clearVars>>

SpecEngine == Init /\ [][EngineNext]_vars

Spec == Init /\ [][StoreNext]_vars

----------------------------------------------------------------------------
(* checkIdleSessions, over a store of two sessions.  The sweep walks the    *)
(* lastActivity map in the order its keys were first set; the caller here   *)
(* creates the ids in the order of IdleIds and ends none, so that order is  *)
(* the order of IdleIds.                                                    *)

IdleIds == <<"s1", "s2">>

\* The keys of the lastActivity map, in iteration order.
Keys(la) == SelectSeq(IdleIds, LAMBDA k : k \in DOMAIN la)

\* Mutant of IsIdle: a session is idle from the threshold on.
IsIdle_Geq(la, sessionId, t) == t - la[sessionId] >= IdleTimeoutMs

IsIdle(la, sessionId, t) == t - la[sessionId] > IdleTimeoutMs

\* The onIdle calls of a sweep over `keys`, in order.
RECURSIVE IdleNotes(_, _, _, _)
IdleNotes(ss, la, keys, t) ==
    IF keys = <<>> THEN <<>>
    ELSE LET sessionId == Head(keys)
             rest == IdleNotes(ss, la, Tail(keys), t)
         IN  IF IsIdle(la, sessionId, t) /\ sessionId \in DOMAIN ss
             THEN <<[cb |-> "onIdle", session |-> ss[sessionId]]>> \o rest
             ELSE rest

checkIdleSessions(ss, la, t) ==
    [ss |-> ss, la |-> la, notes |-> IdleNotes(ss, la, Keys(la), t)]

IdleCreate ==
    \E i \in 1..Len(IdleIds) :
        LET id == IdleIds[i]
            r == createSession(sessions, lastActivity, id, None, now)
        IN  /\ \A j \in 1..(i - 1) : IdleIds[j] \in DOMAIN sessions
            /\ sessions' = r.ss
            /\ lastActivity' = r.la
            /\ last' = Call("createSession", id, None, r)
            /\ UNCHANGED <<now, pendingEnd>>

IdleSetHeader ==
    \E i \in 1..Len(IdleIds) :
        LET id == IdleIds[i]
            h == Hdr(16000, 1, 16, 320)
            r == setHeader(sessions, lastActivity, id, h, now)
        IN  /\ sessions' = r.ss
            /\ lastActivity' = r.la
            /\ last' = Call("setHeader", id, Some(h), r)
            /\ UNCHANGED <<now, pendingEnd>>

IdleAddChunk ==
    \E i \in 1..Len(IdleIds) :
        LET id == IdleIds[i]
            r == addChunk(sessions, lastActivity, id, Chunk(1), now)
        IN  /\ sessions' = r.ss
            /\ lastActivity' = r.la
            /\ last' = Call("addChunk", id, Some(Chunk(1)), r)
            /\ UNCHANGED <<now, pendingEnd>>

CheckIdleSessions ==
    LET r == checkIdleSessions(sessions, lastActivity, now)
    IN  /\ sessions' = r.ss
        /\ lastActivity' = r.la
        /\ last' = [op |-> "checkIdleSessions", id |-> "", notes |-> r.notes]
        /\ UNCHANGED <<now, pendingEnd>>

IdleNext ==
    \/ Tick /\ UNCHANGED <<engineVars, serverVars, hubVars, calcVars, clearVars>>
    \/ IdleCreate /\ UNCHANGED <<engineVars, serverVars, hubVars, calcVars, clearVars>>
    \/ IdleSetHeader /\ UNCHANGED <<engineVars, serverVars, hubVars, calcVars, clearVars>>
    \/ IdleAddChunk /\ UNCHANGED <<engineVars, serverVars, hubVars, calcVars, clearVars>>
    \/ CheckIdleSessions /\ UNCHANGED <<engineVars, serverVars, hubVars, calcVars, clearVars>>

SpecIdle == Init /\ [][IdleNext]_vars

----------------------------------------------------------------------------
(* The Session Store with its sidecar (setSessionData / getSessionData)    *)
(* driven by an arbitrary caller, at one instant of the clock.  The keys   *)
(* are one that names no field of StreamingSession and one that names a    *)
(* field; the values are numbers.                                          *)

DataKeys == {"userId", "totalBytes"}
DataValues == {7, 8}

SetSessionData ==
    \E id \in SessionIds, key \in DataKeys, value \in DataValues :
        LET r == setSessionData(sessions, id, key, value)
        IN  /\ sessions' = r.ss
            /\ last' = [op |-> "setSessionData", id |-> id, key |-> key,
                        value |-> value, ret |-> r.ret, notes |-> <<>>]
            /\ UNCHANGED <<lastActivity, now, pendingEnd>>

DataNext ==
    \/ CreateSession /\ UNCHANGED <<engineVars, serverVars, hubVars, calcVars, clearVars>>
    \/ SetHeader /\ UNCHANGED <<engineVars, serverVars, hubVars, calcVars, clearVars>>
    \/ AddChunk /\ UNCHANGED <<engineVars, serverVars, hubVars, calcVars, clearVars>>
    \/ SetSessionData /\ UNCHANGED <<engineVars, serverVars, hubVars, calcVars, clearVars>>
    \/ EndSession /\ UNCHANGED <<engineVars, serverVars, hubVars, calcVars, clearVars>>
    \/ EndSessionSettle /\ UNCHANGED <<engineVars, serverVars, hubVars, calcVars, clearVars>>

SpecData == Init /\ [][DataNext]_vars

----------------------------------------------------------------------------
(* SessionManager.clearAll, over a store of two sessions whose caller also *)
(* creates and ends sessions while clearAll is suspended.  `clearing.order`*)
(* is the iteration order of the `sessions` Map: a key keeps the place of  *)
(* its first set until it is deleted.  `clearing.pc` is "none" or "await"  *)
(* (suspended at `await this.endSession(sessionId)`), `clearing.ids` the   *)
(* rest of the snapshot, `clearing.called` whether that endSession called  *)
(* onEnd (it did not if the id was no longer in the store).                *)

ClearIds == {"s1", "s2"}

MapKeysSet(order, k) ==
    IF \E i \in 1..Len(order) : order[i] = k THEN order ELSE Append(order, k)
MapKeysDelete(order, k) == SelectSeq(order, LAMBDA x : x # k)

ClearCreate ==
    \E id \in ClearIds :
        LET r == createSession(sessions, lastActivity, id, None, now)
        IN  /\ sessions' = r.ss
            /\ lastActivity' = r.la
            /\ last' = Call("createSession", id, None, r)
            /\ clearing' = [clearing EXCEPT !.order = MapKeysSet(@, id)]
            /\ UNCHANGED <<now, pendingEnd>>

\* endSession called by the caller: it runs to its await.
ClearEndSession ==
    \E id \in ClearIds :
        LET r == endSession(sessions, lastActivity, id)
        IN  /\ id \in DOMAIN sessions
            /\ sessions[id] \notin pendingEnd
            /\ sessions' = r.ss
            /\ lastActivity' = r.la
            /\ last' = Call("endSession", id, None, r)
            /\ pendingEnd' = pendingEnd \cup {r.ret[1]}
            /\ clearing' = [clearing EXCEPT !.order = MapKeysDelete(@, id)]
            /\ UNCHANGED now

\* clearAll from the head of its loop to its next suspension or its end: with
\* the awaited endSession rejected, the rejection leaves clearAll at once; with
\* ids left, endSession of the next one runs to its await; with none left, both
\* maps are cleared and clearAll returns.
clearAllLoop(ss, la, order, ids, fulfilled) ==
    IF ~fulfilled
    THEN [ss |-> ss, la |-> la, notes |-> <<>>, op |-> "clearAll.throw",
          state |-> [order |-> order, pc |-> "none", ids |-> <<>>, called |-> FALSE]]
    ELSE IF ids # <<>>
    THEN LET r == endSession(ss, la, Head(ids))
         IN  [ss |-> r.ss, la |-> r.la, notes |-> r.notes, op |-> "clearAll.await",
              state |-> [order |-> MapKeysDelete(order, Head(ids)), pc |-> "await",
                         ids |-> Tail(ids), called |-> r.notes # <<>>]]
    ELSE [ss |-> EmptyMap, la |-> EmptyMap, notes |-> <<>>, op |-> "clearAll.return",
          state |-> [order |-> <<>>, pc |-> "none", ids |-> <<>>, called |-> FALSE]]

\* clearAll is called: it snapshots the keys and enters its loop.
ClearAll ==
    LET r == clearAllLoop(sessions, lastActivity, clearing.order, clearing.order, TRUE)
    IN  /\ clearing.pc = "none"
        /\ sessions' = r.ss
        /\ lastActivity' = r.la
        /\ last' = [op |-> r.op, id |-> "", notes |-> r.notes]
        /\ clearing' = r.state
        /\ UNCHANGED <<now, pendingEnd>>

\* The endSession that clearAll awaits settles (one that called no onEnd is
\* fulfilled with null) and clearAll goes on.
ClearAllSettle ==
    \E fulfilled \in BOOLEAN :
        LET r == clearAllLoop(sessions, lastActivity, clearing.order, clearing.ids,
                              fulfilled)
        IN  /\ clearing.pc = "await"
            /\ fulfilled \/ clearing.called
            /\ sessions' = r.ss
            /\ lastActivity' = r.la
            /\ last' = [op |-> r.op, id |-> "", notes |-> r.notes]
            /\ clearing' = r.state
            /\ UNCHANGED <<now, pendingEnd>>

ClearNext ==
    \/ ClearCreate /\ UNCHANGED <<engineVars, serverVars, hubVars, calcVars>>
    \/ ClearEndSession /\ UNCHANGED <<engineVars, serverVars, hubVars, calcVars>>
    \/ EndSessionSettle /\ UNCHANGED <<engineVars, serverVars, hubVars, calcVars, clearVars>>
    \/ ClearAll /\ UNCHANGED <<engineVars, serverVars, hubVars, calcVars>>
    \/ ClearAllSettle /\ UNCHANGED <<engineVars, serverVars, hubVars, calcVars>>

SpecClear == Init /\ [][ClearNext]_vars

----------------------------------------------------------------------------
(* VoiceServer: the handlers it gives VoiceWebSocketServer, over its        *)
(* SessionManager.  None of them waits for anything but promises that are   *)
(* already settled, so the continuation of a suspended handleMessage runs   *)
(* before the next socket event or timer; only the frames that one socket   *)
(* read delivers together are classified while earlier ones are suspended.  *)
(* What a handler does with an event is its calls of the store and the      *)
(* messages it sends; `events`, the engine's record of the events, is left  *)
(* alone here.                                                              *)

PipelineConfigured == TRUE

\* The ids handleEnd generates, by the number of the END frame.
GenIds == <<"n1", "n2", "n3", "n4", "n5", "n6", "n7", "n8">>
NewSessionId(n) == GenIds[n]

\* ws.send through sendJson: only while the socket is OPEN.
SendJson(log, msg) == IF conn = "open" THEN Append(log, msg) ELSE log

AuthPrefix == <<65, 85, 84, 72, 58>>    \* "AUTH:"
WhiteSpace == {9, 10, 11, 12, 13, 32}

StartsWith(str, prefix) ==
    Len(str) >= Len(prefix) /\ SubSeq(str, 1, Len(prefix)) = prefix

RECURSIVE TrimStart(_)
TrimStart(str) ==
    IF str # <<>> /\ Head(str) \in WhiteSpace THEN TrimStart(Tail(str)) ELSE str

RECURSIVE TrimEnd(_)
TrimEnd(str) ==
    IF str # <<>> /\ str[Len(str)] \in WhiteSpace
    THEN TrimEnd(SubSeq(str, 1, Len(str) - 1)) ELSE str

Trim(str) == TrimEnd(TrimStart(str))

Suspend(n, type, session) == [n |-> n, type |-> type, session |-> session]

\* handleConnection with VoiceServer.onConnection: the session of the
\* connection is created under the connection's id.
ServerConnect ==
    LET r == createSession(sessions, lastActivity, ConnId, None, now)
    IN  /\ Accept
        /\ wsToSessionId' = Some(ConnId)
        /\ sessions' = r.ss
        /\ lastActivity' = r.la
        /\ last' = Call("createSession", ConnId, None, r)
        /\ UNCHANGED <<now, pendingEnd, transcribed, closePc>>
        /\ UNCHANGED <<wsHeader, inflight, events, nframes, lastFrame, overlapped>>

\* A frame handleMessage only warns about.
ServerDrop ==
    \E data \in Frames :
        LET ev == Classify(wsHeader, data)
        IN  /\ ev.type = "drop"
            /\ Deliver(data, ev)
            /\ UNCHANGED <<inflight, events, sent>>
            /\ UNCHANGED <<storeVars, serverVars>>

\* A text frame: handleText.
ServerText ==
    \E data \in Frames :
        LET ev == Classify(wsHeader, data)
            userId == Trim(SubSeq(ev.message, 6, Len(ev.message)))
            r == setSessionData(sessions, ConnId, "userId", userId)
        IN  /\ ev.type = "text"
            /\ Deliver(data, ev)
            /\ Cardinality(inflight) < MaxInflight
            /\ inflight' = inflight \cup {Suspend(nframes + 1, "text", None)}
            /\ IF StartsWith(ev.message, AuthPrefix)
               THEN IF userId # <<>>
                    THEN /\ sessions' = r.ss
                         /\ last' = [op |-> "setSessionData", id |-> ConnId,
                                     value |-> userId, ret |-> r.ret, notes |-> <<>>]
                         /\ sent' = SendJson(sent, [type |-> "auth_success", userId |-> userId])
                    ELSE /\ sent' = SendJson(sent, [type |-> "auth_error"])
                         /\ UNCHANGED <<sessions, last>>
               ELSE UNCHANGED <<sessions, last, sent>>
            /\ UNCHANGED <<events, lastActivity, now, pendingEnd, serverVars>>

\* Mutant of handleHeader: the bytes that follow the 16-byte header in the
\* frame are stored as the first chunk of the session.
handleHeader_StoresRest(ss, la, sessionId, data, header, t) ==
    LET h == setHeader(ss, la, sessionId, header, t)
        a == addChunk(h.ss, h.la, sessionId, SubSeq(data, 17, Len(data)), t)
    IN  IF Len(data) > 16
        THEN [ss |-> a.ss, la |-> a.la, ret |-> h.ret, notes |-> h.notes \o a.notes]
        ELSE h

\* VoiceServer.handleHeader up to its sendJson: the header goes to the store,
\* the frame itself (`_data`) is not used.
handleHeader(ss, la, sessionId, data, header, t) ==
    setHeader(ss, la, sessionId, header, t)

\* A frame accepted as a header: handleHeader.
ServerHeader ==
    \E data \in Frames :
        LET ev == Classify(wsHeader, data)
            r == handleHeader(sessions, lastActivity, ConnId, ev.data, ev.header, now)
        IN  /\ ev.type = "header"
            /\ Deliver(data, ev)
            /\ Cardinality(inflight) < MaxInflight
            /\ inflight' = inflight \cup {Suspend(nframes + 1, "header", None)}
            /\ sessions' = r.ss
            /\ lastActivity' = r.la
            /\ last' = Call("setHeader", ConnId, Some(ev.header), r)
            /\ sent' = SendJson(sent, [type |-> "header_received", sessionId |-> ConnId])
            /\ UNCHANGED <<events, now, pendingEnd, serverVars>>

\* An audio frame: handleAudio.
ServerAudio ==
    \E data \in Frames :
        LET ev == Classify(wsHeader, data)
            r == addChunk(sessions, lastActivity, ConnId, ev.data, now)
        IN  /\ ev.type = "audio"
            /\ Deliver(data, ev)
            /\ Cardinality(inflight) < MaxInflight
            /\ inflight' = inflight \cup {Suspend(nframes + 1, "audio", None)}
            /\ sessions' = r.ss
            /\ lastActivity' = r.la
            /\ last' = Call("addChunk", ConnId, Some(ev.data), r)
            /\ sent' = IF r.ret THEN sent
                       ELSE SendJson(sent, [type |-> "error",
                                            message |-> "Failed to add audio chunk"])
            /\ UNCHANGED <<events, now, pendingEnd, serverVars>>

\* An END frame: handleEnd up to the await inside endSession.
ServerEnd ==
    \E data \in Frames :
        LET ev == Classify(wsHeader, data)
            r == endSession(sessions, lastActivity, ConnId)
        IN  /\ ev.type = "end"
            /\ Deliver(data, ev)
            /\ Cardinality(inflight) < MaxInflight
            /\ inflight' = inflight \cup {Suspend(nframes + 1, "end", r.ret)}
            /\ sessions' = r.ss
            /\ lastActivity' = r.la
            /\ last' = Call("endSession", ConnId, None, r)
            /\ UNCHANGED <<events, sent, now, pendingEnd, serverVars>>

\* What the plugins of the pipeline answer: null from one of them, a failure,
\* or an answer from all three.
PipelineOutcomes == {"no_transcription", "no_response", "no_audio", "throws", "ok"}

PipelineSends(log, outcome) ==
    CASE outcome = "no_transcription" -> log
      [] outcome = "throws" ->
            SendJson(log, [type |-> "error", message |-> "Failed to process audio"])
      [] outcome = "no_response" -> SendJson(log, [type |-> "transcription"])
      [] outcome = "no_audio" ->
            SendJson(SendJson(log, [type |-> "transcription"]), [type |-> "response"])
      [] outcome = "ok" ->
            SendJson(SendJson(SendJson(log, [type |-> "transcription"]),
                              [type |-> "response"]), [type |-> "audio"])

\* processAudio(ws, session) reaches transcribe: the session has a header and
\* the store still returns audio for its id.
Transcribes(ss, session) ==
    /\ PipelineConfigured
    /\ session.header # None
    /\ getAudioData(ss, session.sessionId) # None
    /\ Len(getAudioData(ss, session.sessionId)[1]) # 0

\* A suspended handleMessage resumes and runs to its end.  After an end event
\* this is the rest of handleEnd (processAudio, the session for continued
\* streaming, session_ready) and then the reset of session.header.
ServerSettle ==
    \E m \in inflight, outcome \in PipelineOutcomes :
        /\ inflight' = inflight \ {m}
        /\ IF m.type # "end"
           THEN /\ outcome = "ok"
                /\ UNCHANGED <<wsHeader, sent, sessions, lastActivity, last,
                               wsToSessionId, transcribed>>
           ELSE /\ wsHeader' = None
                /\ IF m.session = None
                   THEN /\ outcome = "ok"
                        /\ UNCHANGED <<sent, sessions, lastActivity, last,
                                       wsToSessionId, transcribed>>
                   ELSE LET session == m.session[1]
                            newSessionId == NewSessionId(m.n)
                            heard == Transcribes(sessions, session)
                            r == createSession(sessions, lastActivity, newSessionId, None, now)
                            conversationId == getSessionData(r.ss, ConnId, "conversationId")
                            copied == IF conversationId # None
                                      THEN setSessionData(r.ss, newSessionId, "conversationId",
                                                          conversationId[1]).ss
                                      ELSE r.ss
                        IN  /\ heard \/ outcome = "ok"
                            /\ transcribed' =
                                 IF heard
                                 THEN Append(transcribed,
                                        [audio |-> getAudioData(sessions, session.sessionId)[1],
                                         header |-> session.header[1]])
                                 ELSE transcribed
                            /\ wsToSessionId' = Some(newSessionId)
                            /\ sessions' = copied
                            /\ lastActivity' = r.la
                            /\ last' = Call("createSession", newSessionId, None, r)
                            /\ sent' = SendJson(IF heard THEN PipelineSends(sent, outcome) ELSE sent,
                                                [type |-> "session_ready",
                                                 sessionId |-> newSessionId])
        /\ UNCHANGED <<events, nframes, lastFrame, overlapped>>
        /\ UNCHANGED <<now, pendingEnd, conn, registered, isAlive, closePc>>

\* The heartbeat timer fires: a connection that has not answered the last ping
\* is terminated and dropped from the registry, any other is pinged.
Heartbeat ==
    /\ registered
    /\ inflight = {}
    /\ IF ~isAlive
       THEN /\ conn' = "terminated"
            /\ registered' = FALSE
            /\ UNCHANGED isAlive
       ELSE /\ isAlive' = FALSE
            /\ UNCHANGED <<conn, registered>>
    /\ UNCHANGED <<wsToSessionId, transcribed, closePc>>
    /\ UNCHANGED <<storeVars, engineVars>>

\* A pong of the peer.
Pong ==
    /\ conn = "open"
    /\ inflight = {}
    /\ ~isAlive
    /\ isAlive' = TRUE
    /\ UNCHANGED <<conn, registered, wsToSessionId, transcribed, closePc>>
    /\ UNCHANGED <<storeVars, engineVars>>

\* The 'close' event, after the peer closed or the heartbeat terminated the
\* socket: the close handler and VoiceServer.onClose up to the await inside
\* endSession.
ServerClose ==
    LET r == endSession(sessions, lastActivity, ConnId)
    IN  /\ conn \in {"open", "terminated"}
        /\ inflight = {}
        /\ conn' = "closed"
        /\ registered' = FALSE
        /\ closePc' = "pending"
        /\ sessions' = r.ss
        /\ lastActivity' = r.la
        /\ last' = Call("endSession", ConnId, None, r)
        /\ UNCHANGED <<now, pendingEnd, isAlive, wsToSessionId, transcribed>>
        /\ UNCHANGED engineVars

\* onClose resumes after endSession and returns.
ServerCloseSettle ==
    /\ closePc = "pending"
    /\ closePc' = "done"
    /\ UNCHANGED <<conn, registered, isAlive, wsToSessionId, transcribed>>
    /\ UNCHANGED <<storeVars, engineVars>>

ServerNext ==
    \/ Tick /\ UNCHANGED <<engineVars, serverVars, hubVars, calcVars, clearVars>>
    \/ ServerConnect /\ UNCHANGED <<hubVars, calcVars, clearVars>>
    \/ ServerDrop /\ UNCHANGED <<hubVars, calcVars, clearVars>>
    \/ ServerText /\ UNCHANGED <<hubVars, calcVars, clearVars>>
    \/ ServerHeader /\ UNCHANGED <<hubVars, calcVars, clearVars>>
    \/ ServerAudio /\ UNCHANGED <<hubVars, calcVars, clearVars>>
    \/ ServerEnd /\ UNCHANGED <<hubVars, calcVars, clearVars>>
    \/ ServerSettle /\ UNCHANGED <<hubVars, calcVars, clearVars>>
    \/ Heartbeat /\ UNCHANGED <<hubVars, calcVars, clearVars>>
    \/ Pong /\ UNCHANGED <<hubVars, calcVars, clearVars>>
    \/ ServerClose /\ UNCHANGED <<hubVars, calcVars, clearVars>>
    \/ ServerCloseSettle /\ UNCHANGED <<hubVars, calcVars, clearVars>>

SpecServer == Init /\ [][ServerNext]_vars

----------------------------------------------------------------------------
(* VoiceWebSocketServer: the registry of connections and its heartbeat.    *)
(* A socket is "none" before it connects, "open", "closing" once stop()     *)
(* called ws.close() on it, "terminated" once the                            *)
(* heartbeat called ws.terminate() on it, and "closed" after its 'close'    *)
(* event; a closed name that connects again is a new socket.  hubLast       *)
(* keeps, besides the last event, the sockets the last sweep pinged, the    *)
(* sockets whose pong arrived since that sweep, and the sockets the last    *)
(* sweep terminated.                                                        *)

\* Mutant of start: no test for a server that is already running.
start_Always(w, timer, n) ==
    [wss |-> TRUE, heartbeatTimer |-> TRUE, timers |-> n + 1]

\* start(): nothing if this.wss is set; else the server is created and the
\* heartbeat interval is set, its handle replacing the one in heartbeatTimer
\* (an interval whose handle is replaced without clearInterval stays active).
start(w, timer, n) ==
    IF w
    THEN [wss |-> w, heartbeatTimer |-> timer, timers |-> n]
    ELSE [wss |-> TRUE, heartbeatTimer |-> TRUE, timers |-> n + 1]

HubStart ==
    LET r == start(wss, heartbeatTimer, timers)
    IN  /\ wss' = r.wss
        /\ heartbeatTimer' = r.heartbeatTimer
        /\ timers' = r.timers
        /\ hubLast' = [hubLast EXCEPT !.op = IF wss THEN "start.running" ELSE "start"]
        /\ UNCHANGED <<wsSessions, sockets, stopping>>

\* stop() up to `await new Promise(... this.wss.close ...)`: the interval whose
\* handle is in heartbeatTimer is cleared, every registered socket is closed
\* (ws.close() starts the closing handshake, the 'close' event follows), and
\* the registry is cleared.
stop(timer, n, reg, socks) ==
    [heartbeatTimer |-> FALSE,
     timers |-> IF timer THEN n - 1 ELSE n,
     reg |-> EmptyMap,
     sockets |-> [c \in DOMAIN socks |->
                    IF c \in DOMAIN reg /\ socks[c] = "open" THEN "closing"
                    ELSE socks[c]]]

\* stop() is called: with this.wss set it suspends until the server's 'close'
\* event, else it returns.
HubStop ==
    LET r == stop(heartbeatTimer, timers, wsSessions, sockets)
    IN  /\ stopping < MaxStops
        /\ heartbeatTimer' = r.heartbeatTimer
        /\ timers' = r.timers
        /\ wsSessions' = r.reg
        /\ sockets' = r.sockets
        /\ stopping' = IF wss THEN stopping + 1 ELSE stopping
        /\ hubLast' = [hubLast EXCEPT !.op = IF wss THEN "stop.await" ELSE "stop.return"]
        /\ UNCHANGED wss

\* The 'close' event of the server: the callback of every wss.close() call is
\* a listener of it, so every suspended stop() resumes, one after the other
\* with nothing in between, and sets this.wss = null.
HubStopSettle ==
    /\ stopping > 0
    /\ wss' = FALSE
    /\ stopping' = 0
    /\ hubLast' = [hubLast EXCEPT !.op = "stop.return"]
    /\ UNCHANGED <<heartbeatTimer, timers, wsSessions, sockets>>

\* handleConnection: the socket is registered with isAlive = true.
handleConnection(reg, c) == MapSet(reg, c, [isAlive |-> TRUE])

HubConnection ==
    \E c \in Conns :
        /\ wss /\ stopping = 0
        /\ sockets[c] \in {"none", "closed"}
        /\ sockets' = [sockets EXCEPT ![c] = "open"]
        /\ wsSessions' = handleConnection(wsSessions, c)
        /\ hubLast' = [op |-> "connection", pinged |-> hubLast.pinged \ {c},
                       ponged |-> hubLast.ponged \ {c},
                       terminated |-> hubLast.terminated]
        /\ UNCHANGED <<wss, heartbeatTimer, timers, stopping>>

\* A pong that is ignored.
onPong_Ignored(reg, c) == reg
\* The 'pong' listener of a socket: session.isAlive = true.
onPong(reg, c) ==
    IF c \in DOMAIN reg THEN [reg EXCEPT ![c] = [isAlive |-> TRUE]] ELSE reg

\* A pong arrives from an open socket, in answer to a ping or unsolicited.
HubPong ==
    \E c \in Conns :
        /\ sockets[c] = "open"
        /\ wsSessions' = onPong(wsSessions, c)
        /\ hubLast' = [hubLast EXCEPT !.op = "pong", !.ponged = @ \cup {c}]
        /\ UNCHANGED <<wss, heartbeatTimer, timers, sockets, stopping>>

\* A sweep that gives a suspect connection one more cycle.
heartbeat_Spare(reg) ==
    [reg |-> [c \in DOMAIN reg |-> [isAlive |-> FALSE]],
     terminated |-> {},
     pinged |-> DOMAIN reg]
\* heartbeat(): each registered socket whose isAlive is false is terminated
\* and deleted from the registry; each other one has isAlive set to false and
\* is pinged.  What is done to one socket does not depend on the others, so
\* the order of the walk does not show.
heartbeat(reg) ==
    [reg |-> [c \in {d \in DOMAIN reg : reg[d].isAlive} |-> [isAlive |-> FALSE]],
     terminated |-> {c \in DOMAIN reg : ~reg[c].isAlive},
     pinged |-> {c \in DOMAIN reg : reg[c].isAlive}]

\* The interval timer fires.
HubHeartbeat ==
    /\ timers > 0
    /\ LET r == heartbeat(wsSessions) IN
        /\ wsSessions' = r.reg
        /\ sockets' = [c \in Conns |->
                         IF c \in r.terminated /\ sockets[c] = "open"
                         THEN "terminated" ELSE sockets[c]]
        /\ hubLast' = [op |-> "heartbeat", pinged |-> r.pinged, ponged |-> {},
                       terminated |-> r.terminated]
    /\ UNCHANGED <<wss, heartbeatTimer, timers, stopping>>

\* The 'close' event of a socket, after the peer closed it or the heartbeat
\* terminated it: the socket is deleted from the registry.
HubClose ==
    \E c \in Conns :
        /\ sockets[c] \in {"open", "closing", "terminated"}
        /\ sockets' = [sockets EXCEPT ![c] = "closed"]
        /\ wsSessions' = MapDelete(wsSessions, c)
        /\ hubLast' = [hubLast EXCEPT !.op = "close"]
        /\ UNCHANGED <<wss, heartbeatTimer, timers, stopping>>

HubNext ==
    \/ HubStart /\ UNCHANGED <<storeVars, engineVars, serverVars, calcVars, clearVars>>
    \/ HubStop /\ UNCHANGED <<storeVars, engineVars, serverVars, calcVars, clearVars>>
    \/ HubStopSettle /\ UNCHANGED <<storeVars, engineVars, serverVars, calcVars, clearVars>>
    \/ HubConnection /\ UNCHANGED <<storeVars, engineVars, serverVars, calcVars, clearVars>>
    \/ HubPong /\ UNCHANGED <<storeVars, engineVars, serverVars, calcVars, clearVars>>
    \/ HubHeartbeat /\ UNCHANGED <<storeVars, engineVars, serverVars, calcVars, clearVars>>
    \/ HubClose /\ UNCHANGED <<storeVars, engineVars, serverVars, calcVars, clearVars>>

SpecHub == Init /\ [][HubNext]_vars

----------------------------------------------------------------------------
(* core/pcm.ts: the codec of the 16-byte PCM1 header.  A buffer is the      *)
(* sequence of its bytes.  A 32-bit unsigned number is the pair of its      *)
(* 16-bit halves, [hi, lo] for hi * 65536 + lo, so that every value up to   *)
(* 2^32 - 1 is at hand; the writers of Buffer throw a RangeError for a      *)
(* value outside the range of the field.  Each behaviour is one call of a   *)
(* function, with arguments drawn from the sets below.                      *)

Word(hi, lo) == [hi |-> hi, lo |-> lo]
U8(v) == <<v>>
U16LE(v) == <<v % 256, v \div 256>>
U32LE(w) == U16LE(w.lo) \o U16LE(w.hi)
GetUint32(b, off) == Word(GetUint16LE(b, off + 2), GetUint16LE(b, off))

InU8(v) == v \in 0..255
InU16(v) == v \in 0..65535
InU32(w) == InU16(w.hi) /\ InU16(w.lo)

Thrown == [threw |-> TRUE, bytes |-> <<>>]
Returned(bytes) == [threw |-> FALSE, bytes |-> bytes]

\* createPcmHeader writing the halves of the sample rate in the other order.
createPcmHeader_BE(sampleRate, channels, bits, frameSamps) ==
    IF ~(InU32(sampleRate) /\ InU8(channels) /\ InU8(bits) /\ InU16(frameSamps))
    THEN Thrown
    ELSE Returned(Magic \o U16LE(sampleRate.hi) \o U16LE(sampleRate.lo) \o U8(channels) \o U8(bits)
                    \o U16LE(frameSamps) \o U16LE(0) \o U16LE(0))
createPcmHeader(sampleRate, channels, bits, frameSamps) ==
    IF ~(InU32(sampleRate) /\ InU8(channels) /\ InU8(bits) /\ InU16(frameSamps))
    THEN Thrown
    ELSE Returned(Magic \o U32LE(sampleRate) \o U8(channels) \o U8(bits)
                    \o U16LE(frameSamps) \o U16LE(0) \o U16LE(0))

\* parsePcmHeader comparing the first three bytes of the magic only.
parsePcmHeader_Prefix3(b) ==
    IF Len(b) < 16 THEN None
    ELSE IF SubSeq(b, 1, 3) # SubSeq(Magic, 1, 3) THEN None
    ELSE Some([magic |-> "PCM1", sample_rate |-> GetUint32(b, 4),
               channels |-> GetUint8(b, 8), bits |-> GetUint8(b, 9),
               frame_samps |-> GetUint16LE(b, 10), reserved |-> GetUint16LE(b, 12)])
parsePcmHeader(b) ==
    IF Len(b) < 16 THEN None
    ELSE IF SubSeq(b, 1, 4) # Magic THEN None
    ELSE Some([magic |-> "PCM1", sample_rate |-> GetUint32(b, 4),
               channels |-> GetUint8(b, 8), bits |-> GetUint8(b, 9),
               frame_samps |-> GetUint16LE(b, 10), reserved |-> GetUint16LE(b, 12)])

\* The arguments given to createPcmHeader: the ends of each field's range,
\* the values of the streaming client, and the first value past each range.
SampleRates ==
    {Word(0, 0), Word(0, 1), Word(0, 16000), Word(0, 65535), Word(1, 0),
     Word(32768, 0), Word(65535, 65535), Word(65536, 0)}
ChannelCounts == {0, 1, 2, 255, 256}
BitDepths == {0, 8, 16, 255, 256}
FrameSamps == {0, 320, 65535, 65536}

Zeros(n) == [i \in 1..n |-> 0]

\* The buffers given to parsePcmHeader.
PcmBuffers ==
    { <<>>, <<88, 88, 88, 88>>, Magic, Magic \o Zeros(11), Magic \o Zeros(12),
      HeaderBytes, HeaderBytes \o <<7, 8>>, SubSeq(HeaderBytes, 1, 15),
      <<80, 67, 77, 50>> \o Zeros(12),        \* "PCM2"
      <<112, 67, 77, 49>> \o Zeros(12),       \* "pCM1"
      <<80, 67, 77>> \o Zeros(13),            \* "PCM\0"
      <<88, 88, 88, 88>> \o Zeros(12),        \* "XXXX"
      Zeros(16),
      Magic \o <<255, 255, 255, 255, 255, 255, 255, 255, 255, 255, 255, 255>> }

\* createPcmHeader(...), then parsePcmHeader(header.buffer): Buffer.alloc(16)
\* owns an ArrayBuffer of exactly its 16 bytes.
PcmEncode ==
    \E sr \in SampleRates, ch \in ChannelCounts, bits \in BitDepths, fs \in FrameSamps :
        LET r == createPcmHeader(sr, ch, bits, fs) IN
            /\ calc.fn = "init"
            /\ calc' = [fn |-> "createPcmHeader", sampleRate |-> sr, channels |-> ch,
                     bits |-> bits, frameSamps |-> fs, threw |-> r.threw,
                     bytes |-> r.bytes,
                     parsed |-> IF r.threw THEN None ELSE parsePcmHeader(r.bytes)]

PcmDecode ==
    \E b \in PcmBuffers :
        /\ calc.fn = "init"
        /\ calc' = [fn |-> "parsePcmHeader", bytes |-> b, parsed |-> parsePcmHeader(b)]

PcmNext ==
    \/ PcmEncode /\ UNCHANGED <<storeVars, engineVars, serverVars, hubVars, clearVars>>
    \/ PcmDecode /\ UNCHANGED <<storeVars, engineVars, serverVars, hubVars, clearVars>>

SpecPcm == Init /\ [][PcmNext]_vars

----------------------------------------------------------------------------
(* core/pcm.ts and core/audio-conversion.ts: the WAV container.  Numbers    *)
(* of the container are below 2^31 in the buffers used here.                *)

RIFF == <<82, 73, 70, 70>>
WAVE == <<87, 65, 86, 69>>
FMT == <<102, 109, 116, 32>>        \* "fmt "
DATA == <<100, 97, 116, 97>>

WriteUInt32LE(v) == <<v % 256, (v \div 256) % 256, (v \div 65536) % 256, v \div 16777216>>
ReadUInt16LE(b, off) == b[off + 1] + 256 * b[off + 2]
ReadUInt32LE(b, off) ==
    b[off + 1] + 256 * b[off + 2] + 65536 * b[off + 3] + 16777216 * b[off + 4]

\* The 44 bytes createWavHeader writes; a writer stores the integer part of a
\* number that has a fraction.
WavHeaderLayout(riffSize, channels, sampleRate, byteRate, blockAlign, bitsPerSample, dataSize) ==
    RIFF \o WriteUInt32LE(riffSize) \o WAVE
         \o FMT \o WriteUInt32LE(16) \o U16LE(1) \o U16LE(channels)
         \o WriteUInt32LE(sampleRate) \o WriteUInt32LE(byteRate)
         \o U16LE(blockAlign) \o U16LE(bitsPerSample)
         \o DATA \o WriteUInt32LE(dataSize)

\* createWavHeader writing the size of the RIFF chunk as the size of the data.
createWavHeader_DataIsRiff(dataSize, sampleRate, channels, bitsPerSample) ==
    LET byteRate == (sampleRate * channels * bitsPerSample) \div 8
        blockAlign == (channels * bitsPerSample) \div 8
    IN  IF ~(InU16(channels) /\ InU16(bitsPerSample) /\ InU16(blockAlign)
             /\ dataSize >= 0 /\ sampleRate >= 0)
        THEN Thrown
        ELSE Returned(WavHeaderLayout(36 + dataSize, channels, sampleRate, byteRate,
                                      blockAlign, bitsPerSample, 36 + dataSize))
createWavHeader(dataSize, sampleRate, channels, bitsPerSample) ==
    LET byteRate == (sampleRate * channels * bitsPerSample) \div 8
        blockAlign == (channels * bitsPerSample) \div 8
    IN  IF ~(InU16(channels) /\ InU16(bitsPerSample) /\ InU16(blockAlign)
             /\ dataSize >= 0 /\ sampleRate >= 0)
        THEN Thrown
        ELSE Returned(WavHeaderLayout(36 + dataSize, channels, sampleRate, byteRate,
                                      blockAlign, bitsPerSample, dataSize))

wrapPcmToWav(pcmData, sampleRate, channels, bitsPerSample) ==
    LET header == createWavHeader(Len(pcmData), sampleRate, channels, bitsPerSample)
    IN  IF header.threw THEN Thrown ELSE Returned(header.bytes \o pcmData)

\* buf.toString('ascii', from, end): the character codes; decoding as
\* 'ascii' clears the highest bit of each byte.
Ascii(b, from, end) == [i \in 1..(end - from) |-> b[from + i] % 128]

Signed16(v) == IF v >= 32768 THEN v - 65536 ELSE v
ReadInt16LE(b, off) == Signed16(ReadUInt16LE(b, off))
Clamp16(v) == IF v < -32768 THEN -32768 ELSE IF v > 32767 THEN 32767 ELSE v
\* Math.round(acc / channels), halves rounded up.
RoundDiv(acc, channels) == (2 * acc + channels) \div (2 * channels)
Pow2(n) == 2 ^ n

\* One integer sample of `bitsPerSample` bits at `base`, as 16 bits.
IntSample(data, base, bitsPerSample) ==
    CASE bitsPerSample = 16 -> ReadInt16LE(data, base)
      [] bitsPerSample = 24 -> Signed16(ReadUInt16LE(data, base + 1))
      [] bitsPerSample = 32 -> Signed16(ReadUInt16LE(data, base + 2))
      [] bitsPerSample = 8 -> (data[base + 1] - 128) * 256

\* Math.round(Math.max(-1, Math.min(1, f)) * 32767) for the float32 f at
\* `base`: [nan, v].  f is m * 2^(E - 150) with m below 2^24, and its product
\* with 32767 is exact in a double.
FloatSample(data, base) ==
    LET b0 == data[base + 1]
        b1 == data[base + 2]
        b2 == data[base + 3]
        b3 == data[base + 4]
        negative == b3 >= 128
        E == (b3 % 128) * 2 + b2 \div 128
        frac == (b2 % 128) * 65536 + b1 * 256 + b0
        m == 8388608 + frac
        X == (m \div 4096) * 32767
        Y == (m % 4096) * 32767
        shift == 150 - E
        H == Pow2(shift - 13)
    IN  IF E = 255 /\ frac # 0 THEN [nan |-> TRUE, v |-> 0]
        ELSE IF E >= 127 THEN [nan |-> FALSE, v |-> IF negative THEN -32767 ELSE 32767]
        ELSE IF E = 0 \/ shift >= 40 THEN [nan |-> FALSE, v |-> 0]
        ELSE IF negative
             THEN [nan |-> FALSE, v |-> (H - X + ((-Y) \div 4096)) \div Pow2(shift - 12)]
             ELSE [nan |-> FALSE, v |-> (H + X + (Y \div 4096)) \div Pow2(shift - 12)]

RECURSIVE IntAcc(_, _, _, _, _)
IntAcc(data, i, ch, channels, bitsPerSample) ==
    IF ch = channels THEN 0
    ELSE IntSample(data, (i * channels + ch) * ((bitsPerSample + 7) \div 8), bitsPerSample)
            + IntAcc(data, i, ch + 1, channels, bitsPerSample)

RECURSIVE FloatAcc(_, _, _, _)
FloatAcc(data, i, ch, channels) ==
    IF ch = channels THEN [nan |-> FALSE, v |-> 0]
    ELSE LET s == FloatSample(data, (i * channels + ch) * 4)
             rest == FloatAcc(data, i, ch + 1, channels)
         IN  [nan |-> s.nan \/ rest.nan, v |-> s.v + rest.v]

Decoded(pcm, sampleRate) == [kind |-> "ok", pcm |-> pcm, sampleRate |-> sampleRate]
DecodeNull == [kind |-> "null", pcm |-> <<>>, sampleRate |-> 0]
DecodeThrows == [kind |-> "throws", pcm |-> <<>>, sampleRate |-> 0]

\* The branch audioFormat === 1.  With a frame of 0 bytes totalFrames is
\* Infinity, for which new Int16Array throws a RangeError, or NaN (no data),
\* for which it makes an empty array.  The test of the bit depth is inside the
\* loops: it is reached only if there is a frame.
DecodePcm(data, channels, sampleRate, bitsPerSample) ==
    LET bytesPerSample == (bitsPerSample + 7) \div 8
        frameBytes == bytesPerSample * channels
        totalFrames == Len(data) \div frameBytes
    IN  IF frameBytes = 0
        THEN IF Len(data) = 0 THEN Decoded(<<>>, sampleRate) ELSE DecodeThrows
        ELSE IF totalFrames > 0 /\ bitsPerSample \notin {8, 16, 24, 32} THEN DecodeNull
        ELSE Decoded([i \in 1..totalFrames |->
                        Clamp16(RoundDiv(IntAcc(data, i - 1, 0, channels, bitsPerSample),
                                         channels))],
                     sampleRate)

\* The branch audioFormat === 3 && bitsPerSample === 32; a NaN stored in an
\* Int16Array is 0.
DecodeFloat(data, channels, sampleRate) ==
    LET frameBytes == 4 * channels
        totalFrames == Len(data) \div frameBytes
    IN  IF frameBytes = 0
        THEN IF Len(data) = 0 THEN Decoded(<<>>, sampleRate) ELSE DecodeThrows
        ELSE Decoded([i \in 1..totalFrames |->
                        LET acc == FloatAcc(data, i - 1, 0, channels)
                        IN  IF acc.nan THEN 0 ELSE Clamp16(RoundDiv(acc.v, channels))],
                     sampleRate)

FmtDefaults ==
    [fmtFound |-> FALSE, audioFormat |-> 1, channels |-> 1, sampleRate |-> 16000,
     bitsPerSample |-> 16]

\* The while loop over the chunks, from `offset`: it stops at the first data
\* chunk or at the end of the buffer; the reads of a fmt chunk of declared size
\* >= 16 throw a RangeError when they reach past the end of the buffer.
RECURSIVE ParseChunks(_, _, _)
ParseChunks(b, offset, f) ==
    IF offset + 8 > Len(b)
    THEN [kind |-> "end", f |-> f, dataOffset |-> -1, dataSize |-> 0]
    ELSE LET chunkId == Ascii(b, offset, offset + 4)
             chunkSize == ReadUInt32LE(b, offset + 4)
             chunkDataStart == offset + 8
         IN  IF chunkId = FMT
             THEN IF chunkSize >= 16
                  THEN IF chunkDataStart + 16 > Len(b)
                       THEN [kind |-> "throws", f |-> f, dataOffset |-> -1, dataSize |-> 0]
                       ELSE ParseChunks(b, chunkDataStart + chunkSize,
                                [fmtFound |-> TRUE,
                                 audioFormat |-> ReadUInt16LE(b, chunkDataStart),
                                 channels |-> ReadUInt16LE(b, chunkDataStart + 2),
                                 sampleRate |-> ReadUInt32LE(b, chunkDataStart + 4),
                                 bitsPerSample |-> ReadUInt16LE(b, chunkDataStart + 14)])
                  ELSE ParseChunks(b, chunkDataStart + chunkSize,
                                   [f EXCEPT !.fmtFound = TRUE])
             ELSE IF chunkId = DATA
             THEN [kind |-> "data", f |-> f, dataOffset |-> chunkDataStart,
                   dataSize |-> chunkSize]
             ELSE ParseChunks(b, chunkDataStart + chunkSize, f)

\* The iterations of the same loop, in order: the offset each one starts at,
\* the offset it leaves for the next one, and how it ends ("next": the loop
\* test is evaluated again, "break": a data chunk, "throws": a RangeError).
RECURSIVE ChunkWalk(_, _)
ChunkWalk(b, offset) ==
    IF offset + 8 > Len(b) THEN <<>>
    ELSE LET chunkId == Ascii(b, offset, offset + 4)
             chunkSize == ReadUInt32LE(b, offset + 4)
             chunkDataStart == offset + 8
         IN  IF chunkId = FMT /\ chunkSize >= 16 /\ chunkDataStart + 16 > Len(b)
             THEN <<[offset |-> offset, next |-> offset, exit |-> "throws"]>>
             ELSE IF chunkId = DATA
             THEN <<[offset |-> offset, next |-> offset, exit |-> "break"]>>
             ELSE <<[offset |-> offset, next |-> chunkDataStart + chunkSize,
                     exit |-> "next"]>>
                  \o ChunkWalk(b, chunkDataStart + chunkSize)

decodeWavToInt16Mono(wavBuffer) ==
    IF Len(wavBuffer) < 44 THEN DecodeNull
    ELSE IF Ascii(wavBuffer, 0, 4) # RIFF \/ Ascii(wavBuffer, 8, 12) # WAVE THEN DecodeNull
    ELSE LET w == ParseChunks(wavBuffer, 12, FmtDefaults) IN
         IF w.kind = "throws" THEN DecodeThrows
         ELSE IF ~w.f.fmtFound \/ w.kind # "data" THEN DecodeNull
         ELSE IF w.dataOffset + w.dataSize > Len(wavBuffer) THEN DecodeNull
         ELSE LET data == SubSeq(wavBuffer, w.dataOffset + 1, w.dataOffset + w.dataSize) IN
              IF w.f.audioFormat = 1
              THEN DecodePcm(data, w.f.channels, w.f.sampleRate, w.f.bitsPerSample)
              ELSE IF w.f.audioFormat = 3 /\ w.f.bitsPerSample = 32
              THEN DecodeFloat(data, w.f.channels, w.f.sampleRate)
              ELSE DecodeNull

\* The samples a caller wraps: Int16 values, as the little-endian bytes of an
\* Int16Array.
SampleValues == {-32768, -1, 0, 1, 32767}
SampleSeqs == UNION {[1..n -> SampleValues] : n \in 0..MaxSamples}
WavRates == {8000, 16000, 44100, 48000}

RECURSIVE SamplesLE(_)
SamplesLE(x) ==
    IF x = <<>> THEN <<>>
    ELSE U16LE(IF Head(x) < 0 THEN Head(x) + 65536 ELSE Head(x)) \o SamplesLE(Tail(x))

\* The buffers given to decodeWavToInt16Mono: chunks in several layouts, with
\* every format tag, channel count, bit depth and data below.
FmtChunk(tag, channels, sampleRate, bitsPerSample) ==
    FMT \o WriteUInt32LE(16) \o U16LE(tag) \o U16LE(channels) \o WriteUInt32LE(sampleRate)
        \o WriteUInt32LE(0) \o U16LE(0) \o U16LE(bitsPerSample)
DataChunk(d) == DATA \o WriteUInt32LE(Len(d)) \o d
ListChunk(n) == <<76, 73, 83, 84>> \o WriteUInt32LE(n) \o Zeros(n)
HighBit(id) == [i \in 1..Len(id) |-> id[i] + 128]
RiffOf(chunks) == RIFF \o WriteUInt32LE(4 + Len(chunks)) \o WAVE \o chunks

FormatTags == {0, 1, 3, 65534}
WavChannels == {0, 1, 2}
WavBitDepths == {0, 8, 12, 16, 24, 32, 64}
WavDatas ==
    { <<>>, <<5>>, <<0, 128, 255, 127>>,
      <<0, 0, 128, 63, 0, 0, 0, 191>>,              \* float32 1.0, -0.5
      <<0, 0, 192, 127, 205, 204, 76, 62>> }        \* float32 NaN, 0.2
WavLayouts ==
    { "fmt,data", "data,fmt", "list,fmt,data", "fmt only", "data only",
      "data past end", "fmt header at end", "fmt cut short", "fmt of size 0",
      "ids with bit 7", "not RIFF", "43 bytes" }

WavRate == 16000

WavOf(layout, tag, channels, bitsPerSample, d) ==
    LET fmt == FmtChunk(tag, channels, WavRate, bitsPerSample) IN
    CASE layout = "fmt,data" -> RiffOf(fmt \o DataChunk(d))
      [] layout = "data,fmt" -> RiffOf(DataChunk(d) \o fmt)
      [] layout = "list,fmt,data" -> RiffOf(ListChunk(4) \o fmt \o DataChunk(d))
      [] layout = "fmt only" -> RiffOf(fmt \o ListChunk(Len(d)))
      [] layout = "data only" -> RiffOf(ListChunk(16) \o DataChunk(d))
      [] layout = "data past end" ->
            RiffOf(fmt \o DATA \o WriteUInt32LE(Len(d) + 1) \o d)
      [] layout = "fmt header at end" ->
            RiffOf(ListChunk(16) \o FMT \o WriteUInt32LE(16))
      [] layout = "fmt cut short" ->
            RiffOf(ListChunk(16) \o SubSeq(fmt, 1, 23))
      [] layout = "fmt of size 0" ->
            RiffOf(FMT \o WriteUInt32LE(0) \o ListChunk(8) \o DataChunk(d))
      [] layout = "ids with bit 7" ->
            HighBit(RIFF) \o WriteUInt32LE(36 + Len(d)) \o HighBit(WAVE)
                \o HighBit(FMT) \o SubSeq(fmt, 5, 24)
                \o HighBit(DATA) \o WriteUInt32LE(Len(d)) \o d
      [] layout = "not RIFF" -> Zeros(44) \o d
      [] layout = "43 bytes" -> SubSeq(RiffOf(fmt \o DataChunk(d)), 1, 43)

\* wrapPcmToWav of mono 16-bit samples, then decodeWavToInt16Mono of the
\* result.
WavWrap ==
    \E x \in SampleSeqs, rate \in WavRates :
        LET w == wrapPcmToWav(SamplesLE(x), rate, 1, 16) IN
            /\ calc.fn = "init"
            /\ calc' = [fn |-> "wrapPcmToWav", samples |-> x, rate |-> rate,
                        threw |-> w.threw, wav |-> w.bytes,
                        decoded |-> IF w.threw THEN DecodeNull
                                    ELSE decodeWavToInt16Mono(w.bytes)]

WavDecode ==
    \E layout \in WavLayouts, tag \in FormatTags, channels \in WavChannels,
       bits \in WavBitDepths, d \in WavDatas :
        LET wav == WavOf(layout, tag, channels, bits, d) IN
            /\ calc.fn = "init"
            /\ calc' = [fn |-> "decodeWavToInt16Mono", layout |-> layout, tag |-> tag,
                        channels |-> channels, bits |-> bits, data |-> d,
                        wav |-> wav, decoded |-> decodeWavToInt16Mono(wav)]

WavNext ==
    \/ WavWrap /\ UNCHANGED <<storeVars, engineVars, serverVars, hubVars, clearVars>>
    \/ WavDecode /\ UNCHANGED <<storeVars, engineVars, serverVars, hubVars, clearVars>>

SpecWav == Init /\ [][WavNext]_vars

----------------------------------------------------------------------------
(* core/audio-conversion.ts: resampleInt16Mono.  The numbers of JavaScript  *)
(* are IEEE 754 doubles.  A positive double is [sig, exp]: sig is the 53     *)
(* bits of its significand, the most significant (a 1) first, and exp the    *)
(* exponent of the last of them: the value is sig * 2^exp.  Division and     *)
(* multiplication compute the bits of the exact result and round them to 53, *)
(* to nearest, ties to even.                                                 *)

\* The binary digits of n, the first of `width` digits first.
Digits(n, width) == [i \in 1..width |-> (n \div Pow2(width - i)) % 2]

\* The number of binary digits of n (below 2^31).
BitLength(n) == CHOOSE L \in 0..31 : n < Pow2(L) /\ (L = 0 \/ n >= Pow2(L - 1))

RECURSIVE BitsToInt(_)
BitsToInt(b) ==
    IF Len(b) = 0 THEN 0
    ELSE IF Len(b) = 1 THEN b[1]
    ELSE LET h == Len(b) \div 2
         IN  BitsToInt(SubSeq(b, 1, Len(b) - h)) * Pow2(h)
                + BitsToInt(SubSeq(b, Len(b) - h + 1, Len(b)))

\* The index of the first 1 of a sequence of bits that has one.
FirstOne(b) == CHOOSE f \in 1..Len(b) : b[f] = 1 /\ \A i \in 1..(f - 1) : b[i] = 0

\* sig + 1, for 53 bits that are not all 1.
IncBits(sig) ==
    LET k == CHOOSE j \in 1..53 : sig[j] = 0 /\ \A i \in (j + 1)..53 : sig[i] = 1
    IN  [i \in 1..53 |-> IF i < k THEN sig[i] ELSE IF i = k THEN 1 ELSE 0]

\* 53 bits, the bit after them and whether anything but zeros follows that
\* bit, rounded to nearest, ties to even.
RoundToDouble(sig, round, sticky, exp) ==
    IF round = 1 /\ (sticky \/ sig[53] = 1)
    THEN IF \A i \in 1..53 : sig[i] = 1
         THEN [sig |-> <<1>> \o [i \in 1..52 |-> 0], exp |-> exp + 1]
         ELSE [sig |-> IncBits(sig), exp |-> exp]
    ELSE [sig |-> sig, exp |-> exp]

\* The double nearest to the number whose bits are `all`, the last of them
\* of weight 2^exp, followed by zeros only or (sticky) not; `all` has a 1 and
\* at least 54 bits from it on.
ToDouble(all, exp, sticky) ==
    LET f == FirstOne(all)
        rest == Len(all) - (f + 52)
    IN  RoundToDouble(SubSeq(all, f, f + 52), all[f + 53],
                      sticky \/ \E i \in (f + 54)..Len(all) : all[i] = 1,
                      exp + rest)

\* a / b for positive integers (b below 2^16), as a double: the whole part,
\* then 75 bits after the binary point by long division, 15 bits at a time.
Divide(a, b) ==
    LET q0 == a \div b
        r0 == a % b
        d1 == (r0 * 32768) \div b
        r1 == (r0 * 32768) % b
        d2 == (r1 * 32768) \div b
        r2 == (r1 * 32768) % b
        d3 == (r2 * 32768) \div b
        r3 == (r2 * 32768) % b
        d4 == (r3 * 32768) \div b
        r4 == (r3 * 32768) % b
        d5 == (r4 * 32768) \div b
        r5 == (r4 * 32768) % b
    IN  ToDouble(Digits(q0, BitLength(q0)) \o Digits(d1, 15) \o Digits(d2, 15)
                    \o Digits(d3, 15) \o Digits(d4, 15) \o Digits(d5, 15),
                 -75, r5 # 0)

\* n * x for a positive integer n (below 2^15) and a double x, as a double:
\* the significand is multiplied 15 bits at a time, from the last.
Multiply(n, x) ==
    LET w0 == BitsToInt(SubSeq(x.sig, 39, 53))
        w1 == BitsToInt(SubSeq(x.sig, 24, 38))
        w2 == BitsToInt(SubSeq(x.sig, 9, 23))
        w3 == BitsToInt(SubSeq(x.sig, 1, 8))
        p0 == w0 * n
        p1 == w1 * n + p0 \div 32768
        p2 == w2 * n + p1 \div 32768
        p3 == w3 * n + p2 \div 32768
    IN  ToDouble(Digits(p3, BitLength(p3)) \o Digits(p2 % 32768, 15)
                    \o Digits(p1 % 32768, 15) \o Digits(p0 % 32768, 15)
                    \o <<0>>,
                 x.exp - 1, FALSE)

\* Math.floor of a double below 2^52.
Floor(x) == IF 53 + x.exp <= 0 THEN 0 ELSE BitsToInt(SubSeq(x.sig, 1, 53 + x.exp))

\* outLen = Math.max(1, Math.floor(pcm.length * ratio)) with
\* ratio = dstRate / srcRate; 0 * ratio is 0.
outLen(length, srcRate, dstRate) ==
    IF length = 0 THEN 1
    ELSE LET n == Floor(Multiply(length, Divide(dstRate, srcRate)))
         IN  IF n < 1 THEN 1 ELSE n

\* The iteration i = 0 of the loop, which runs for every input since outLen is
\* at least 1: srcPos = 0 / ratio = 0, so i0 = 0, i1 = min(pcm.length - 1, 1)
\* and t = 0 (0-based indices, as in the code).  A read outside a typed array
\* gives undefined, which makes s NaN, and the Int16Array stores NaN as 0;
\* otherwise s = 1 * pcm[i0] + 0 * pcm[i1] = pcm[i0].
Interpolate0(pcm) ==
    LET i0 == 0
        i1 == IF Len(pcm) - 1 < i0 + 1 THEN Len(pcm) - 1 ELSE i0 + 1
        InRange(k) == k \in 0..(Len(pcm) - 1)
    IN  [i0 |-> i0, i1 |-> i1,
         out |-> IF InRange(i0) /\ InRange(i1) THEN pcm[i0 + 1] ELSE 0]

\* resampleInt16Mono going through the interpolation for equal rates too:
\* the ratio is 1, every position is whole and every sample is copied; of no
\* samples it makes one sample, 0.
resampleInt16Mono_NoShortcut(pcm, srcRate, dstRate) ==
    IF srcRate = dstRate
    THEN IF pcm = <<>>
         THEN [same |-> FALSE, length |-> 1, pcm |-> <<0>>, first |-> <<Interpolate0(pcm)>>]
         ELSE [same |-> FALSE, length |-> Len(pcm), pcm |-> pcm,
               first |-> <<Interpolate0(pcm)>>]
    ELSE [same |-> FALSE, length |-> outLen(Len(pcm), srcRate, dstRate), pcm |-> <<>>,
          first |-> <<Interpolate0(pcm)>>]
\* resampleInt16Mono: the array itself for equal rates, else a new array of
\* outLen samples.  Of the new array the length and the first iteration of the
\* loop are kept here; the later samples, interpolated in floating point, are
\* not (pcm is <<>> then).
resampleInt16Mono(pcm, srcRate, dstRate) ==
    IF srcRate = dstRate
    THEN [same |-> TRUE, length |-> Len(pcm), pcm |-> pcm, first |-> <<>>]
    ELSE [same |-> FALSE, length |-> outLen(Len(pcm), srcRate, dstRate), pcm |-> <<>>,
          first |-> <<Interpolate0(pcm)>>]

Ramp(n) == [i \in 1..n |-> 1000 * i - 5000]
ResampleInputs == SampleSeqs \cup {Ramp(n) : n \in 0..MaxResampleLen}
ResampleRates == {1, 3, 11, 15, 8000, 16000, 44100}

Resample ==
    \E x \in ResampleInputs, srcRate \in ResampleRates, dstRate \in ResampleRates :
        /\ calc.fn = "init"
        /\ calc' = [fn |-> "resampleInt16Mono", samples |-> x, srcRate |-> srcRate,
                    dstRate |-> dstRate, out |-> resampleInt16Mono(x, srcRate, dstRate)]

ResampleNext ==
    Resample /\ UNCHANGED <<storeVars, engineVars, serverVars, hubVars, clearVars>>

SpecResample == Init /\ [][ResampleNext]_vars

----------------------------------------------------------------------------
(* Claims about the protocol engine, checked under SpecEngine.             *)

\* A header event was emitted and no end event since.
StreamingByEvents(evs) ==
    LET marks == {i \in 1..Len(evs) : evs[i].type \in {"header", "end"}}
    IN  /\ marks # {}
        /\ \A i \in marks : (\A j \in marks : j <= i) => evs[i].type = "header"

\* C1: with the frames processed one at a time, a binary frame that is neither
\* the END marker nor a header frame accepted while awaiting a header is
\* emitted as an audio event if and only if a header event was emitted and no
\* end event since; otherwise it is dropped: no event, no state change, no
\* change to any session.
C1_AudioIffStreaming ==
    [][ ( /\ nframes' = nframes + 1
          /\ ~overlapped'
          /\ ~lastFrame'.textual
          /\ lastFrame'.bytes # EndMarker
          /\ ~( /\ ~StreamingByEvents(events)
                /\ Len(lastFrame'.bytes) >= 16
                /\ SubSeq(lastFrame'.bytes, 1, 4) = Magic ) )
        => IF StreamingByEvents(events)
           THEN /\ events' = Append(events, [type |-> "audio", data |-> lastFrame'.bytes])
                /\ wsHeader' = wsHeader
           ELSE /\ events' = events
                /\ wsHeader' = wsHeader
                /\ sent' = sent
                /\ UNCHANGED storeVars ]_vars

\* C2: the frames of a connection are processed one at a time: whenever a
\* handleMessage invocation is suspended, it is that of the frame delivered
\* last (no later frame was classified while it was pending).
C2_OneAtATime ==
    \A m \in inflight : m.n = nframes

\* C18: an END frame, with the frames processed one at a time, emits exactly one
\* end event, and when its processing is over session.header is reset
\* (AWAITING_HEADER), whether the handler of the end event returned or failed.
C18_EndResets ==
    /\ [][ ( /\ nframes' = nframes + 1
             /\ inflight = {}
             /\ lastFrame' = Binary(EndMarker) )
           => /\ events' = Append(events, [type |-> "end"])
              /\ inflight' = {} => wsHeader' = None ]_vars
    /\ [][ \A m \in inflight :
             ( /\ m.type = "end"
               /\ inflight = {m}
               /\ inflight' = {}
               /\ nframes' = nframes )
             => wsHeader' = None ]_vars

\* C19: a text frame is emitted as a text event carrying its text, whatever the
\* protocol state, and leaves session.header as it was; it is never classified
\* as header, audio or end, and never dropped.
C19_TextAlways ==
    [][ (nframes' = nframes + 1 /\ lastFrame'.textual)
        => /\ events' = Append(events, [type |-> "text", message |-> lastFrame'.bytes])
           /\ wsHeader' = wsHeader ]_vars

\* C20: with the frames processed one at a time, a binary frame emits a header
\* event, carrying the header parsed from it, and makes the connection
\* STREAMING exactly when the connection is AWAITING_HEADER (no header event
\* emitted, or an end event since) and the frame has at least 16 bytes of which
\* the first 4 are the magic constant; nothing else emits a header event.
C20_HeaderAccepted ==
    [][ (nframes' = nframes + 1 /\ ~overlapped')
        => LET data == lastFrame'
               accepted == /\ ~data.textual
                           /\ ~StreamingByEvents(events)
                           /\ Len(data.bytes) >= 16
                           /\ SubSeq(data.bytes, 1, 4) = Magic
               ev == [type |-> "header", data |-> data.bytes,
                      header |-> HeaderOf(data.bytes)]
           IN  IF accepted
               THEN /\ events' = Append(events, ev)
                    /\ wsHeader' = Some(ev.header)
               ELSE \/ events' = events
                    \/ /\ Len(events') = Len(events) + 1
                       /\ events'[Len(events')].type # "header" ]_vars

----------------------------------------------------------------------------
(* Claims about VoiceServer, checked under SpecServer.                     *)

\* The session ids announced to the client by session_ready, in order.
ReadyIds(log) ==
    LET idx == {i \in 1..Len(log) : log[i].type = "session_ready"}
    IN  {log[i].sessionId : i \in {j \in idx : \A k \in idx : k <= j}}

\* C3: once an END frame has been handled (its session_ready sent, nothing in
\* progress), the next header frame sets the header of the session announced by
\* session_ready, and an audio frame that meets that session's quotas is
\* appended to it.
C3_FreshStream ==
    [][ \A id \in ReadyIds(sent) :
          (nframes' = nframes + 1 /\ inflight = {})
          => LET ev == Classify(wsHeader, lastFrame')
             IN  /\ ev.type = "header"
                    => /\ id \in DOMAIN sessions'
                       /\ sessions'[id].header = Some(ev.header)
                 /\ ( /\ ev.type = "audio"
                      /\ id \in DOMAIN sessions
                      /\ LimitExceeded(sessions[id], ev.data, now) = "none" )
                    => /\ id \in DOMAIN sessions'
                       /\ sessions'[id].dataChunks =
                              Append(sessions[id].dataChunks, ev.data) ]_vars

\* C4: when the handling of an END frame resumes with the ended session, and
\* that session has a header and at least one chunk, transcribe is invoked once
\* with the concatenation of the session's chunks and its header.
C4_Transcribed ==
    [][ \A m \in inflight :
          ( /\ m \notin inflight'
            /\ m.type = "end"
            /\ m.session # None
            /\ m.session[1].header # None
            /\ m.session[1].dataChunks # <<>> )
          => transcribed' = Append(transcribed,
                                   [audio |-> Concat(m.session[1].dataChunks),
                                    header |-> m.session[1].header[1]]) ]_vars

\* C5: once the close handler of the connection has completed, the store holds
\* no session (every session of this server was created for the connection).
C5_NoSessionAfterClose ==
    closePc = "done" => DOMAIN sessions = {}

\* C17: every session in the store that holds a chunk has a header: no audio
\* frame is stored in a session before a header frame was accepted for it.
C17_HeaderBeforeAudio ==
    \A id \in DOMAIN sessions :
        sessions[id].dataChunks # <<>> => sessions[id].header # None

\* The session of the connection holds the header and an audio frame.
C17_Witness ==
    /\ ConnId \in DOMAIN sessions
    /\ sessions[ConnId].header # None
    /\ sessions[ConnId].dataChunks # <<>>
    /\ last.op = "addChunk" /\ last.ret = TRUE

----------------------------------------------------------------------------
(* Claims about the Session Store, checked under Spec.                     *)
(* A step is a call of `op` when it leaves the clock alone and the call    *)
(* record it leaves names `op` (Tick is the only action that keeps `last`).*)

IsCall(op) == last'.op = op /\ now' = now

\* C6: for every session in the store, totalBytes is the sum of the lengths of
\* its chunks and never exceeds maxBytes; and a chunk that brings totalBytes to
\* exactly maxBytes (the other quotas being met) is admitted.
C6_TotalBytes ==
    /\ [](\A id \in DOMAIN sessions :
            /\ sessions[id].totalBytes = SumLen(sessions[id].dataChunks)
            /\ sessions[id].totalBytes <= MaxBytes)
    /\ [][ \A id \in DOMAIN sessions :
             ( /\ IsCall("addChunk") /\ last'.id = id
               /\ sessions[id].totalBytes + Len(last'.arg[1]) = MaxBytes
               /\ now - sessions[id].startTime <= MaxDurationMs
               /\ Len(sessions[id].dataChunks) < MaxChunks )
             => /\ last'.ret = TRUE
                /\ sessions'[id].totalBytes = MaxBytes ]_storeVars

C6_Witness ==
    /\ last.op = "addChunk" /\ last.ret = TRUE
    /\ last.id \in DOMAIN sessions
    /\ sessions[last.id].totalBytes = MaxBytes
    /\ Len(sessions[last.id].dataChunks) >= 2

\* C7: a session never holds more than maxChunks chunks: an addChunk that meets
\* the byte and duration quotas is admitted (appended) while the session holds
\* fewer than maxChunks chunks, and rejected once it holds maxChunks, leaving the
\* chunk count and the audio data as they were.
C7_MaxChunks ==
    /\ [](\A id \in DOMAIN sessions : Len(sessions[id].dataChunks) <= MaxChunks)
    /\ [][ \A id \in DOMAIN sessions :
             ( /\ IsCall("addChunk") /\ last'.id = id
               /\ sessions[id].totalBytes + Len(last'.arg[1]) <= MaxBytes
               /\ now - sessions[id].startTime <= MaxDurationMs )
             => IF Len(sessions[id].dataChunks) < MaxChunks
                THEN /\ last'.ret = TRUE
                     /\ sessions'[id].dataChunks =
                            Append(sessions[id].dataChunks, last'.arg[1])
                ELSE /\ last'.ret = FALSE
                     /\ id \in DOMAIN sessions'
                     /\ Len(sessions'[id].dataChunks) = MaxChunks
                     /\ getAudioData(sessions', id) = getAudioData(sessions, id) ]_storeVars

C7_Witness ==
    /\ last.op = "addChunk" /\ last.ret = FALSE
    /\ last.notes # <<>> /\ last.notes[1].reason = "max_chunks"
    /\ last.id \in DOMAIN sessions
    /\ Len(sessions[last.id].dataChunks) = MaxChunks

\* The quotas an addChunk of `chunk` at time t violates, against the pre-chunk state.
Violated(session, chunk, t) ==
    {q \in {"max_bytes", "max_duration", "max_chunks"} :
        \/ q = "max_bytes" /\ session.totalBytes + Len(chunk) > MaxBytes
        \/ q = "max_duration" /\ t - session.startTime > MaxDurationMs
        \/ q = "max_chunks" /\ Len(session.dataChunks) >= MaxChunks}

FirstOf(qs) ==
    IF "max_bytes" \in qs THEN "max_bytes"
    ELSE IF "max_duration" \in qs THEN "max_duration" ELSE "max_chunks"

\* C8: addChunk on an existing session that violates one or more quotas invokes
\* onLimitExceeded exactly once, with the first violated quota in the order
\* bytes, duration, chunks, and returns false; with no quota violated it
\* returns true and invokes no callback.
C8_QuotaOrder ==
    [][ \A id \in DOMAIN sessions :
          (IsCall("addChunk") /\ last'.id = id)
          => LET qs == Violated(sessions[id], last'.arg[1], now)
             IN  IF qs # {}
                 THEN /\ last'.ret = FALSE
                      /\ Len(last'.notes) = 1
                      /\ last'.notes[1].cb = "onLimitExceeded"
                      /\ last'.notes[1].reason = FirstOf(qs)
                 ELSE /\ last'.ret = TRUE
                      /\ last'.notes = <<>> ]_storeVars

\* A rejection for max_bytes of a session that is also over its duration and
\* chunk-count quotas.
C8_Witness ==
    /\ last.op = "addChunk" /\ last.ret = FALSE
    /\ last.notes # <<>> /\ last.notes[1].reason = "max_bytes"
    /\ last.id \in DOMAIN sessions
    /\ Len(sessions[last.id].dataChunks) >= MaxChunks
    /\ now - sessions[last.id].startTime > MaxDurationMs

\* C9: an addChunk rejected by a quota leaves the store as it was: the session
\* stays, with the same chunks, totalBytes, header, start time and activity time.
C9_RejectIntact ==
    [][ \A id \in DOMAIN sessions :
          (IsCall("addChunk") /\ last'.id = id /\ last'.ret = FALSE)
          => /\ sessions' = sessions
             /\ lastActivity' = lastActivity ]_storeVars

\* A rejection at a time later than the session's last activity.
C9_Witness ==
    /\ last.op = "addChunk" /\ last.ret = FALSE /\ last.notes # <<>>
    /\ last.id \in DOMAIN sessions
    /\ sessions[last.id].header # None
    /\ sessions[last.id].dataChunks # <<>>
    /\ lastActivity[last.id] < now

\* C10: endSession of a session in the store removes it, invokes onEnd exactly
\* once with the session as it was before removal, and returns that session;
\* endSession of an id not in the store returns absent, invokes nothing and
\* changes nothing; getStats of the id is absent after either.
C10_EndIdempotent ==
    /\ [][ IsCall("endSession")
           => /\ last'.id \notin DOMAIN sessions'
              /\ last'.id \notin DOMAIN lastActivity'
              /\ getStats(sessions', last'.id, now') = None
              /\ IF last'.id \in DOMAIN sessions
                 THEN /\ last'.notes = <<[cb |-> "onEnd", session |-> sessions[last'.id]]>>
                      /\ last'.session = Some(sessions[last'.id])
                      /\ pendingEnd' = pendingEnd \cup {sessions[last'.id]}
                 ELSE /\ last'.notes = <<>>
                      /\ last'.session = None
                      /\ UNCHANGED <<sessions, lastActivity, pendingEnd>> ]_storeVars
    /\ [][ IsCall("endSession.return")
           => /\ last'.session # None
              /\ last'.session[1] \in pendingEnd
              /\ last'.session[1].sessionId = last'.id
              /\ last'.notes = <<>>
              /\ UNCHANGED <<sessions, lastActivity>> ]_storeVars

\* A second endSession of an id, answered absent, after the first one removed a
\* session holding audio (the first call is still awaiting onEnd).
C10_Witness ==
    /\ last.op = "endSession" /\ last.session = None /\ last.notes = <<>>
    /\ last.id \notin DOMAIN sessions
    /\ \E p \in pendingEnd : p.sessionId = last.id /\ p.dataChunks # <<>>

\* The audio getAudioData returns, as bytes: none for absent.
AudioOf(ss, id) == IF getAudioData(ss, id) = None THEN <<>> ELSE getAudioData(ss, id)[1]

\* C16: getAudioData(id) is the concatenation of the admitted chunks in the
\* order of their addChunk calls: absent for a missing session and for a
\* session just created, extended at its end by each admitted chunk, and changed
\* by nothing else (a rejected chunk, setHeader); it is absent exactly when the
\* session is missing or holds no chunk.
C16_AudioInOrder ==
    /\ [][ \A id \in SessionIds :
             (now' = now /\ last'.id = id)
             => CASE last'.op \in {"createSession", "createSession.throw"} ->
                        getAudioData(sessions', id) = None
                  [] last'.op = "addChunk" /\ last'.ret = TRUE ->
                        getAudioData(sessions', id)
                            = Some(AudioOf(sessions, id) \o last'.arg[1])
                  [] last'.op = "endSession" -> getAudioData(sessions', id) = None
                  [] OTHER -> getAudioData(sessions', id) = getAudioData(sessions, id) ]_storeVars
    /\ [][ now' # now => \A id \in SessionIds :
                            getAudioData(sessions', id) = getAudioData(sessions, id) ]_storeVars
    /\ [](\A id \in SessionIds :
            getAudioData(sessions, id) = None
               <=> (id \notin DOMAIN sessions \/ sessions[id].dataChunks = <<>>))

\* Two different chunks admitted one after the other, and a third rejected.
C16_Witness ==
    /\ last.op = "addChunk" /\ last.ret = FALSE
    /\ last.id \in DOMAIN sessions
    /\ Len(sessions[last.id].dataChunks) = 2
    /\ sessions[last.id].dataChunks[1] # sessions[last.id].dataChunks[2]
    /\ getAudioData(sessions, last.id)
          = Some(sessions[last.id].dataChunks[1] \o sessions[last.id].dataChunks[2])

\* C13: createSession returns the new session, which is in the store with no
\* chunk and totalBytes 0, whatever onCreate does: return, return a promise that
\* is rejected, or throw.
C13_CreateReturns ==
    [][ \A id \in SessionIds :
          ( /\ now' = now /\ last'.id = id
            /\ last'.op \in {"createSession", "createSession.throw"} )
          => /\ last'.op = "createSession"
             /\ last'.session = Some(NewSession(id, last'.header, now))
             /\ id \in DOMAIN sessions'
             /\ sessions'[id] = NewSession(id, last'.header, now) ]_storeVars

\* C12: endSession and addChunk of one id may race.  While an endSession of the
\* id is awaiting onEnd (and the id was not created again), addChunk returns
\* false with no callback and changes neither the store nor the session that
\* endSession is going to return; that session is the one endSession found, with
\* every chunk admitted before the call, and no later call changes it.
C12_EndRace ==
    /\ [][ \A p \in pendingEnd :
             ( /\ IsCall("addChunk") /\ last'.id = p.sessionId
               /\ p.sessionId \notin DOMAIN sessions )
             => /\ last'.ret = FALSE
                /\ last'.notes = <<>>
                /\ UNCHANGED <<sessions, lastActivity, pendingEnd>> ]_storeVars
    /\ [][ \A id \in DOMAIN sessions :
             /\ (IsCall("addChunk") /\ last'.id = id /\ last'.ret = TRUE)
                => sessions'[id].dataChunks = Append(sessions[id].dataChunks, last'.arg[1])
             /\ (IsCall("endSession") /\ last'.id = id)
                => /\ last'.session = Some(sessions[id])
                   /\ sessions[id] \in pendingEnd' ]_storeVars
    /\ [][ \A p \in pendingEnd :
             \/ p \in pendingEnd'
             \/ /\ last'.op \in {"endSession.return", "endSession.throw"}
                /\ last'.id = p.sessionId
                /\ last'.op = "endSession.return" => last'.session = Some(p) ]_storeVars

\* A chunk offered, and refused, while the endSession of a session holding audio
\* is still awaiting onEnd.
C12_Witness ==
    /\ last.op = "addChunk" /\ last.ret = FALSE /\ last.notes = <<>>
    /\ last.id \notin DOMAIN sessions
    /\ \E p \in pendingEnd : p.sessionId = last.id /\ p.dataChunks # <<>>

----------------------------------------------------------------------------
(* Claims about the Session Store with its sidecar, checked under SpecData. *)

\* C11: an operation on an id that is not in the store returns false
\* (setHeader, addChunk, setSessionData) or absent (endSession, getAudioData,
\* getStats, getSessionData), invokes no callback and leaves the store as it
\* was: no session is created, none is changed.
C11_NotFound ==
    /\ [][ \A id \in SessionIds \ DOMAIN sessions :
             (last'.id = id /\ now' = now)
             => /\ last'.op \in {"setHeader", "addChunk", "setSessionData"}
                   => /\ last'.ret = FALSE
                      /\ last'.notes = <<>>
                      /\ UNCHANGED <<sessions, lastActivity, pendingEnd>>
                /\ last'.op = "endSession"
                   => /\ last'.session = None
                      /\ last'.notes = <<>>
                      /\ UNCHANGED <<sessions, lastActivity, pendingEnd>> ]_storeVars
    /\ [](\A id \in SessionIds \ DOMAIN sessions :
            /\ getAudioData(sessions, id) = None
            /\ getStats(sessions, id, now) = None
            /\ \A key \in DataKeys \cup SessionFields :
                  /\ getSessionData(sessions, id, key) = None
                  /\ \A value \in DataValues :
                        setSessionData(sessions, id, key, value)
                            = [ss |-> sessions, ret |-> FALSE])

\* setSessionData answered false for the id of a session that was ended.
C11_Witness ==
    /\ last.op = "setSessionData" /\ last.ret = FALSE
    /\ last.id \notin DOMAIN sessions
    /\ \E p \in pendingEnd : p.sessionId = last.id /\ p.dataChunks # <<>>

\* C15: setSessionData(id, key, value) on a session in the store, for every
\* key, leaves the session's chunks, totalBytes, header, sessionId and start
\* time as they were (so totalBytes stays the sum of the chunk lengths), and
\* getSessionData(id, key) then returns the value; for a session just created,
\* under which nothing was stored, getSessionData returns absent for every key.
C15_SidecarIndependent ==
    [][ \A id \in DOMAIN sessions' :
          /\ (IsCall("setSessionData") /\ last'.id = id /\ id \in DOMAIN sessions)
             => /\ sessions'[id].dataChunks = sessions[id].dataChunks
                /\ sessions'[id].totalBytes = sessions[id].totalBytes
                /\ sessions'[id].header = sessions[id].header
                /\ sessions'[id].sessionId = sessions[id].sessionId
                /\ sessions'[id].startTime = sessions[id].startTime
                /\ getSessionData(sessions', id, last'.key) = Some(last'.value)
          /\ (IsCall("createSession") /\ last'.id = id)
             => \A key \in DataKeys : getSessionData(sessions', id, key) = None ]_storeVars

----------------------------------------------------------------------------
(* Claims about checkIdleSessions, checked under SpecIdle.                  *)

\* The ids of the sessions a sweep notified, one entry per onIdle call.
Notified(notes, id) ==
    Cardinality({i \in 1..Len(notes) : notes[i].session.sessionId = id})

----------------------------------------------------------------------------
(* Claims about the heartbeat, checked under SpecHub.                      *)

IsSweep == hubLast'.op = "heartbeat"

\* C21: a connection that the previous sweep pinged, that sent no pong since
\* and that is still registered is terminated and removed from the
\* registry by the next sweep.
C21_MissOnceThenKill ==
    [][IsSweep =>
        \A c \in (hubLast.pinged \ hubLast.ponged) \cap DOMAIN wsSessions :
            /\ sockets'[c] = "terminated"
            /\ c \notin DOMAIN wsSessions']_vars

\* A sweep has just terminated a socket that the sweep before it pinged.
C21_Witness ==
    /\ hubLast.op = "heartbeat"
    /\ \E c \in hubLast.terminated :
        sockets[c] = "terminated" /\ c \notin DOMAIN wsSessions

\* C22: a sweep terminates only sockets that the previous sweep pinged and
\* that sent no pong since; a socket is registered as alive when it
\* connects, and the first sweep after that leaves it open and registered.
C22_ResponsiveSurvives ==
    [][/\ IsSweep =>
            /\ hubLast'.terminated \subseteq hubLast.pinged \ hubLast.ponged
            /\ \A c \in Conns :
                sockets[c] = "open" /\ sockets'[c] = "terminated"
                    => c \in hubLast'.terminated
       /\ \A c \in Conns :
            hubLast'.op = "connection" /\ sockets[c] # "open" /\ sockets'[c] = "open"
                => wsSessions'[c].isAlive
       /\ \A c \in DOMAIN wsSessions :
            IsSweep /\ c \notin hubLast.pinged
                => sockets'[c] = sockets[c] /\ c \in DOMAIN wsSessions']_vars

\* A sweep has just terminated one socket and left open another that was
\* alive, because it had sent a pong or had connected since the sweep before.
C22_Witness ==
    /\ hubLast.op = "heartbeat"
    /\ hubLast.terminated # {}
    /\ \E c \in hubLast.pinged : sockets[c] = "open" /\ c \in DOMAIN wsSessions


----------------------------------------------------------------------------
(* Claims about the header codec, checked under SpecPcm.                   *)

\* C23: for arguments within the ranges of the fields, createPcmHeader
\* returns 16 bytes of which bytes 12..15 are zero, and parsePcmHeader of
\* them returns magic "PCM1", the four arguments and reserved 0.
C23_RoundTrip ==
    (/\ calc.fn = "createPcmHeader"
     /\ InU32(calc.sampleRate) /\ InU8(calc.channels) /\ InU8(calc.bits)
     /\ InU16(calc.frameSamps))
    => /\ ~calc.threw
       /\ Len(calc.bytes) = 16
       /\ SubSeq(calc.bytes, 13, 16) = <<0, 0, 0, 0>>
       /\ calc.parsed = Some([magic |-> "PCM1", sample_rate |-> calc.sampleRate,
                              channels |-> calc.channels, bits |-> calc.bits,
                              frame_samps |-> calc.frameSamps, reserved |-> 0])

\* The largest value of every field has gone through the round trip.
C23_Witness ==
    /\ calc.fn = "createPcmHeader"
    /\ calc.sampleRate = Word(65535, 65535) /\ calc.channels = 255
    /\ calc.bits = 255 /\ calc.frameSamps = 65535
    /\ calc.parsed # None

IsPcmHeader(h) ==
    /\ DOMAIN h = {"magic", "sample_rate", "channels", "bits", "frame_samps", "reserved"}
    /\ h.magic = "PCM1"
    /\ InU32(h.sample_rate) /\ InU8(h.channels) /\ InU8(h.bits)
    /\ InU16(h.frame_samps) /\ InU16(h.reserved)

\* C24: parsePcmHeader returns null for a buffer of fewer than 16 bytes and
\* for a buffer whose first four bytes are not "PCM1", and a header with
\* every field for any other buffer.
C24_NullOrComplete ==
    calc.fn = "parsePcmHeader" =>
        IF Len(calc.bytes) < 16 \/ SubSeq(calc.bytes, 1, 4) # Magic
        THEN calc.parsed = None
        ELSE calc.parsed # None /\ IsPcmHeader(calc.parsed[1])

\* A 16-byte buffer that differs from the magic in its fourth byte only was
\* refused.
C24_Witness ==
    /\ calc.fn = "parsePcmHeader"
    /\ Len(calc.bytes) = 16
    /\ SubSeq(calc.bytes, 1, 3) = SubSeq(Magic, 1, 3)
    /\ calc.bytes[4] # Magic[4]
    /\ calc.parsed = None


----------------------------------------------------------------------------
(* Claims about the WAV container, checked under SpecWav.                  *)

\* C25: wrapPcmToWav of N mono 16-bit samples at rate R is the 44-byte
\* header (RIFF size 36 + 2N, fmt chunk of size 16, format tag 1, data size
\* 2N) followed by the data; decodeWavToInt16Mono of it returns the same N
\* samples and the rate R, so the duration of the decoded audio is N / R.
C25_WrapThenDecode ==
    calc.fn = "wrapPcmToWav" =>
        LET N == Len(calc.samples)
            d == calculateDuration(2 * Len(calc.decoded.pcm), calc.decoded.sampleRate, 1, 16)
        IN  /\ ~calc.threw
            /\ Len(calc.wav) = 44 + 2 * N
            /\ SubSeq(calc.wav, 1, 4) = RIFF
            /\ ReadUInt32LE(calc.wav, 4) = 36 + 2 * N
            /\ SubSeq(calc.wav, 9, 12) = WAVE
            /\ SubSeq(calc.wav, 13, 16) = FMT
            /\ ReadUInt32LE(calc.wav, 16) = 16
            /\ ReadUInt16LE(calc.wav, 20) = 1
            /\ ReadUInt16LE(calc.wav, 22) = 1
            /\ ReadUInt32LE(calc.wav, 24) = calc.rate
            /\ ReadUInt16LE(calc.wav, 34) = 16
            /\ SubSeq(calc.wav, 37, 40) = DATA
            /\ ReadUInt32LE(calc.wav, 40) = 2 * N
            /\ SubSeq(calc.wav, 45, Len(calc.wav)) = SamplesLE(calc.samples)
            /\ calc.decoded = Decoded(calc.samples, calc.rate)
            /\ d[1] * calc.rate = N * d[2]

\* Two samples, the least and the greatest, were wrapped and decoded.
C25_Witness ==
    /\ calc.fn = "wrapPcmToWav"
    /\ calc.samples = <<-32768, 32767>>
    /\ calc.rate = 44100
    /\ calc.decoded.kind = "ok"

\* C26: decodeWavToInt16Mono returns DecodedAudio or null for every buffer;
\* it raises no exception.
C26_Total ==
    calc.fn = "decodeWavToInt16Mono" => calc.decoded.kind \in {"ok", "null"}

\* What the fields of a fmt chunk make of the data.
DecodeWith(tag, channels, bitsPerSample, d) ==
    IF tag = 1 THEN DecodePcm(d, channels, WavRate, bitsPerSample)
    ELSE IF tag = 3 /\ bitsPerSample = 32 THEN DecodeFloat(d, channels, WavRate)
    ELSE DecodeNull

\* C27: with a fmt chunk and a data chunk in either order the buffer is
\* decoded with the fields of the fmt chunk; with one of them missing, or a
\* data size past the end of the buffer, the result is null.
C27_EitherOrder ==
    calc.fn = "decodeWavToInt16Mono" =>
        /\ calc.layout \in {"fmt,data", "data,fmt", "list,fmt,data"}
            => calc.decoded = DecodeWith(calc.tag, calc.channels, calc.bits, calc.data)
        /\ calc.layout \in {"fmt only", "data only", "data past end"}
            => calc.decoded = DecodeNull

\* C28: with a format tag and bit depth other than tag 1 with 8, 16, 24 or 32
\* bits and tag 3 with 32 bits, the result is null whatever the data chunk
\* holds.
C28_UnsupportedIsNull ==
    (/\ calc.fn = "decodeWavToInt16Mono"
     /\ calc.layout \in {"fmt,data", "list,fmt,data"}
     /\ ~(calc.tag = 1 /\ calc.bits \in {8, 16, 24, 32})
     /\ ~(calc.tag = 3 /\ calc.bits = 32))
    => calc.decoded.kind = "null"


----------------------------------------------------------------------------
(* Claims about resampling, checked under SpecResample.                    *)

\* C29: for different positive rates the result has
\* max(1, floor(len(x) * r2 / r1)) samples, the quotient being exact.
C29_ExactLength ==
    (calc.fn = "resampleInt16Mono" /\ calc.srcRate # calc.dstRate) =>
        LET n == (Len(calc.samples) * calc.dstRate) \div calc.srcRate
        IN  calc.out.length = IF n < 1 THEN 1 ELSE n

\* C30: for equal rates the result has the content of x.
C30_EqualRates ==
    (calc.fn = "resampleInt16Mono" /\ calc.srcRate = calc.dstRate) =>
        calc.out.length = Len(calc.samples) /\ calc.out.pcm = calc.samples

\* Two samples, the least and the greatest, were resampled at equal rates.
C30_Witness ==
    /\ calc.fn = "resampleInt16Mono"
    /\ calc.srcRate = calc.dstRate
    /\ calc.samples = <<-32768, 32767>>
    /\ calc.out.pcm = <<-32768, 32767>>


----------------------------------------------------------------------------
(* Further claims about the protocol engine, checked under SpecEngine.     *)

\* C31: while the connection is STREAMING (a header event was emitted and no
\* end event since), a binary frame of at least 16 bytes that starts with the
\* magic constant is emitted as an audio event carrying its bytes; the stored
\* header does not change and the connection stays STREAMING.
C31_MagicWhileStreaming ==
    [][ ( /\ nframes' = nframes + 1
          /\ ~lastFrame'.textual
          /\ StreamingByEvents(events)
          /\ Len(lastFrame'.bytes) >= 16
          /\ SubSeq(lastFrame'.bytes, 1, 4) = Magic )
        => /\ events' = Append(events, [type |-> "audio", data |-> lastFrame'.bytes])
           /\ wsHeader' = wsHeader
           /\ StreamingByEvents(events') ]_vars

----------------------------------------------------------------------------
(* Claims about clearAll and the end notification, checked under SpecClear. *)

\* The onEnd calls of a step for the session object `session`.
EndNotes(notes, session) ==
    SelectSeq(notes, LAMBDA n : n.cb = "onEnd" /\ n.session = session)

\* C32: every session that leaves the store (its id is deleted from the map,
\* the map is cleared, or createSession puts a new session under its id) has
\* onEnd invoked for it exactly once, in the operation that makes it leave.
C32_EndNotifiedOnLeave ==
    [][ \A id \in DOMAIN sessions :
          ( \/ id \notin DOMAIN sessions'
            \/ last'.op = "createSession" /\ last'.id = id )
          => Len(EndNotes(last'.notes, sessions[id])) = 1 ]_vars

\* C33: when clearAll settles (it returns or it rejects), the store is empty.
C33_EmptyWhenSettled ==
    last.op \in {"clearAll.return", "clearAll.throw"} => DOMAIN sessions = {}

----------------------------------------------------------------------------
(* Further claims about VoiceServer, checked under SpecServer.              *)

\* C34: an auth_success reply is sent only if the user id it names was stored
\* under "userId" in a session that is in the store at that moment (the session
\* whose data processAudio hands to the conversation plugin is looked up in the
\* store the same way).
C34_AuthStored ==
    [][ ( /\ Len(sent') = Len(sent) + 1
          /\ sent'[Len(sent')].type = "auth_success" )
        => \E id \in DOMAIN sessions' :
              getSessionData(sessions', id, "userId") = Some(sent'[Len(sent')].userId) ]_vars

----------------------------------------------------------------------------
(* A further claim about the connection registry, checked under SpecHub.    *)

\* C36: at most one heartbeat interval is active at any time, and while no
\* server is set (before the first start, and from the completion of stop to
\* the next start) no interval is active, so no sweep runs, and the registry
\* of connections is empty.
C36_OneTimer ==
    /\ timers <= 1
    /\ ~wss => timers = 0 /\ DOMAIN wsSessions = {}

\* stop() has completed on a server that had been started and whose
\* connections it closed.
C36_Witness ==
    /\ hubLast.op = "stop.return"
    /\ ~wss
    /\ \E c \in Conns : sockets[c] \in {"closing", "closed"}

----------------------------------------------------------------------------
(* The engine's header test against the Envelope Codec, under SpecEngine.   *)

\* The header of a header event in the codec's representation of sample_rate.
AsParsed(h) ==
    [h EXCEPT !.sample_rate = Word(h.sample_rate \div 65536, h.sample_rate % 65536)]

\* C37: for every binary frame the engine is given, (a) if it emits a header
\* event, parsePcmHeader succeeds on the first 16 bytes of the frame and returns
\* the header the event carries, and (b) if the connection is AWAITING_HEADER
\* (no header event emitted, or an end event since), a header event is emitted
\* exactly when parsePcmHeader succeeds on the frame.
C37_HeaderIsParsed ==
    [][ (nframes' = nframes + 1 /\ lastFrame'.isBuffer)
        => LET bytes == lastFrame'.bytes
               first16 == SubSeq(bytes, 1, IF Len(bytes) < 16 THEN Len(bytes) ELSE 16)
               parsed == parsePcmHeader(first16)
               emitted == /\ Len(events') = Len(events) + 1
                          /\ events'[Len(events')].type = "header"
           IN  /\ emitted => /\ parsed # None
                             /\ AsParsed(events'[Len(events')].header) = parsed[1]
               /\ ~StreamingByEvents(events) => (emitted <=> parsed # None) ]_vars

\* Part (a) of C37 alone.
C37_EventCarriesParsed ==
    [][ ( /\ nframes' = nframes + 1
          /\ Len(events') = Len(events) + 1
          /\ events'[Len(events')].type = "header" )
        => LET parsed == parsePcmHeader(SubSeq(lastFrame'.bytes, 1, 16))
           IN  parsed # None /\ AsParsed(events'[Len(events')].header) = parsed[1] ]_vars

----------------------------------------------------------------------------
(* A further claim about resampleInt16Mono, checked under SpecResample.     *)

\* C38: with different rates, the two source indices read in an iteration of
\* the interpolation (here the first one, which every call runs) lie in
\* 0..len(x)-1, for every input x, and the sample written lies between the
\* two source samples read.
C38_IndicesInRange ==
    (calc.fn = "resampleInt16Mono" /\ calc.srcRate # calc.dstRate)
    => \A k \in 1..Len(calc.out.first) :
          LET it == calc.out.first[k]
              x == calc.samples
              lo == IF x[it.i0 + 1] < x[it.i1 + 1] THEN x[it.i0 + 1] ELSE x[it.i1 + 1]
              hi == IF x[it.i0 + 1] < x[it.i1 + 1] THEN x[it.i1 + 1] ELSE x[it.i0 + 1]
          IN  /\ it.i0 \in 0..(Len(x) - 1)
              /\ it.i1 \in 0..(Len(x) - 1)
              /\ it.out \in lo..hi

----------------------------------------------------------------------------
(* The chunk walk of decodeWavToInt16Mono, checked under SpecWav.           *)

\* The buffer of the last call reaches the chunk walk.
Walked ==
    /\ calc.fn = "decodeWavToInt16Mono"
    /\ Len(calc.wav) >= 44
    /\ Ascii(calc.wav, 0, 4) = RIFF /\ Ascii(calc.wav, 8, 12) = WAVE

\* C39: in the chunk walk every iteration that goes on leaves an offset at
\* least 8 past its own, and the last iteration either is the one of the
\* first data chunk or leaves fewer than 8 bytes after its offset.
C39_WalkEnds ==
    Walked =>
        LET walk == ChunkWalk(calc.wav, 12)
        IN  /\ \A k \in 1..Len(walk) :
                  walk[k].exit = "next" => walk[k].next >= walk[k].offset + 8
            /\ \A k \in 1..(Len(walk) - 1) : walk[k].exit = "next"
            /\ walk # <<>> =>
                  LET end == walk[Len(walk)]
                  IN  \/ end.exit = "break"
                      \/ end.exit = "next" /\ end.next + 8 > Len(calc.wav)

\* The first half of C39 alone: the offset grows by at least 8 in every
\* iteration that goes on, and the walk has at most (length - 12) / 8 of them.
C39_OffsetGrows ==
    Walked =>
        LET walk == ChunkWalk(calc.wav, 12)
        IN  /\ \A k \in 1..Len(walk) :
                  walk[k].exit = "next" => walk[k].next >= walk[k].offset + 8
            /\ 8 * Len(walk) <= Len(calc.wav) - 12

====
